---- MODULE Spec2Model ----
(***************************************************************************)
(* Money-movement core of the gaming backend: the jackpot pool manager     *)
(* (JackpotManager over ConcurrencySafeDB) and the bet transaction         *)
(* (executeCoreBet).  The store is PostgreSQL under its default READ       *)
(* COMMITTED isolation: a statement reads the last committed row (or the   *)
(* transaction's own write), an UPDATE takes the row lock until the        *)
(* transaction ends and is applied to the newest committed row, SELECT ... *)
(* FOR UPDATE NOWAIT fails at once when the row lock is taken.             *)
(* Amounts are integer cents.  A contribution rate is held in thousandths. *)
(* An optional value (undefined / NULL) is the empty set, a present value  *)
(* v is {v}.                                                               *)
(***************************************************************************)
EXTENDS Integers, Sequences, FiniteSets, TLC

\* ---------------------------------------------------------------- bounds
\* calls made to the jackpot manager; each runs as its own task
NumCalls == 3
\* contribute calls of the parallel stress run
NumStressCalls == 4
\* store faults injected
MaxFaults == 1
\* executeCoreBet calls of the one user; each runs as its own task
NumBets == 2
\* logTransaction calls; each runs as its own task
NumLogCalls == 2
\* executeCoreDeposit calls (webhook confirmations); each runs as its own task
NumDepositCalls == 2

\* ------------------------------------------------------------- constants
MAX_RETRY_ATTEMPTS == 3

Procs == 1 .. NumCalls
NoProc == 0

None == {}
Some(v) == {v}
Val(o) == CHOOSE v \in o : TRUE
\* JavaScript `o || d` on an optional number: undefined, null and 0 are falsy
OrElse(o, d) == IF o = None \/ o = Some(0) THEN d ELSE Val(o)
Truthy(o) == o # None /\ o # Some(0)

\* -------------------------------------------------------------- inputs
\* 0 is rejected; 40 contributes nothing at 2%; 100 contributes 2;
\* 50000000 overshoots the default cap of MINOR
Wagers == {0, 40, 100, 50000000}
\* winAmount omitted, rejected, within the pool, beyond the pool
WinRequests ==
  {[type |-> "MINOR", winAmount |-> None],
   [type |-> "MINOR", winAmount |-> Some(0)],
   [type |-> "MINOR", winAmount |-> Some(30000)],
   [type |-> "MINOR", winAmount |-> Some(2000000)],
   [type |-> "MAJOR", winAmount |-> Some(30000)]}
\* the empty update, one and two types, a cap below the seed, an invalid pair
ConfigUpdates ==
  {[keys |-> {}, partial |-> [rate |-> None, seedAmount |-> None, maxAmount |-> None]],
   [keys |-> {"minor"}, partial |-> [rate |-> Some(1000), seedAmount |-> None, maxAmount |-> None]],
   [keys |-> {"minor"}, partial |-> [rate |-> None, seedAmount |-> None, maxAmount |-> Some(50000)]],
   [keys |-> {"minor", "major"},
    partial |-> [rate |-> Some(1000), seedAmount |-> Some(200000), maxAmount |-> Some(1200000)]],
   [keys |-> {"minor"},
    partial |-> [rate |-> None, seedAmount |-> Some(200000), maxAmount |-> Some(150000)]]}
UserId == "u1"
GameId == "g1"
\* the users table, the users that have a user_balances row, the games table
Users == {UserId, "u2"}
BalanceOwners == {UserId}
Games == {GameId}
\* the numbers that are not finite; they stand outside every amount in use
Infinity == 1000000000
NaN == 0 - 999999999
NotFinite == {Infinity, 0 - Infinity, NaN}

JackpotTypes == {"MINOR", "MAJOR", "GRAND"}
ConfigKeys == {"minor", "major", "mega"}
ConfigKeyOf(type) == IF type = "GRAND" THEN "mega" ELSE IF type = "MAJOR" THEN "major" ELSE "minor"
DbTypeOf(key) == IF key = "mega" THEN "GRAND" ELSE IF key = "major" THEN "MAJOR" ELSE "MINOR"

DefaultJackpotConfig ==
  [minor |-> [seedAmount |-> 100000, maxAmount |-> 1000000, contributionRate |-> 20],
   major |-> [seedAmount |-> 1000000, maxAmount |-> 10000000, contributionRate |-> 10],
   mega |-> [seedAmount |-> 10000000, maxAmount |-> 100000000, contributionRate |-> 5]]

\* a row of the jackpots table; present = FALSE stands for "no such row"
NoRow ==
  [present |-> FALSE, currentAmount |-> 0, seedAmount |-> 0, maxAmount |-> None,
   contributionRate |-> 0, totalContributions |-> 0, totalWins |-> 0,
   lastWonAmount |-> None, lastWonByUserId |-> None, version |-> 0]

\* the row ensureInitialized inserts for a missing type
SeedRow(key) ==
  [present |-> TRUE,
   currentAmount |-> DefaultJackpotConfig[key].seedAmount,
   seedAmount |-> DefaultJackpotConfig[key].seedAmount,
   maxAmount |-> IF DefaultJackpotConfig[key].maxAmount = 0 THEN None
                 ELSE Some(DefaultJackpotConfig[key].maxAmount),
   contributionRate |-> DefaultJackpotConfig[key].contributionRate,
   totalContributions |-> 0, totalWins |-> 0,
   lastWonAmount |-> None, lastWonByUserId |-> None, version |-> 0]

\* the in-memory configuration the manager is constructed with
InitialConfig ==
  [k \in ConfigKeys |->
     [rate |-> Some(DefaultJackpotConfig[k].contributionRate),
      seedAmount |-> Some(DefaultJackpotConfig[k].seedAmount),
      maxAmount |-> Some(DefaultJackpotConfig[k].maxAmount)]]

VARIABLES
  pools,                \* jackpots table: type -> committed row
  contributionHistory,  \* jackpot_contribution_history, committed rows
  winHistory,           \* jackpot_win_history, committed rows
  rowLock,              \* type -> process holding the row lock, or NoProc
  config,               \* JackpotManager.config (in memory)
  initialized,          \* JackpotManager.initialized
  pc,                   \* process -> position in its call
  call,                 \* process -> arguments of its call
  attempt,              \* process -> attempt number of the retry loop
  snap,                 \* process -> rows read at the start of the transaction
  todo,                 \* process -> pool types the mutation has yet to visit
  txPools,              \* process -> uncommitted row writes of its transaction
  txWritten,            \* process -> types its transaction has updated
  txContrib,            \* process -> uncommitted contribution-history inserts
  txWin,                \* process -> uncommitted win-history inserts
  txData,               \* process -> value the mutation will return
  result,               \* process -> outcome of its last call
  nFaults,              \* store faults injected so far
  committed,            \* type -> committed row updates, by kind of operation
  balance,              \* user_balances row of the user: committed balances
  balanceLock,          \* bet holding the lock of the balance row, or NoProc
  bpc,                  \* bet -> position in executeCoreBet
  bcall,                \* bet -> betRequest (userId, gameId, wagerAmount) and gameOutcome.winAmount
  buser,                \* bet -> the user read with its userBalances (validateBet's input)
  bbal,                 \* bet -> the balance row read as userBalance
  bded,                 \* bet -> balanceDeduction returned by deductBetAmount
  btx,                  \* bet -> uncommitted balances of its transaction
  bres,                 \* bet -> what executeCoreBet returned or raised
  extraRows,            \* jackpots table: type -> rows of that type beyond the first
  ledger,               \* transaction_log: the rows inserted
  lpc,                  \* logTransaction call -> position
  lcall,                \* logTransaction call -> its payload
  lres,                 \* logTransaction call -> how it ended
  deposit,              \* deposits table: the row of the one deposit
  dpc,                  \* executeCoreDeposit call -> position
  dcall,                \* executeCoreDeposit call -> its confirmation
  dpending,             \* executeCoreDeposit call -> the deposit row it found
  dbal,                 \* executeCoreDeposit call -> balances read before the transaction
  dcredit,              \* executeCoreDeposit call -> what handleDeposit returned
  dtx,                  \* executeCoreDeposit call -> uncommitted deposit row of its transaction
  dres,                 \* executeCoreDeposit call -> what it returned or raised
  dtask,                \* processDepositConfirmation call -> its return and its listeners
  split                 \* addWinningsWithinTransaction with a winAmount of winNum / winDen

jvars == <<pools, contributionHistory, winHistory, rowLock, config, initialized,
           pc, call, attempt, snap, todo, txPools, txWritten, txContrib, txWin,
           txData, result, committed>>

bvars == <<balance, balanceLock, bpc, bcall, buser, bbal, bded, btx, bres>>

lvars == <<ledger, lpc, lcall, lres>>

dvars == <<deposit, dpc, dcall, dpending, dbal, dcredit, dtx, dres, dtask>>

xvars == <<extraRows, lvars, dvars, split>>

vars == <<jvars, nFaults, bvars, xvars>>

NoCall == [op |-> "none", wagerAmount |-> 0, type |-> "MINOR", winAmount |-> None,
           keys |-> {}, partial |-> [rate |-> None, seedAmount |-> None, maxAmount |-> None]]
NoData == [contributions |-> [t \in JackpotTypes |-> 0], totalContribution |-> 0,
           actualWinAmount |-> 0, remainingAmount |-> 0]
NoResult == [status |-> "none", data |-> NoData]

InitJackpot ==
  /\ pools = [t \in JackpotTypes |-> NoRow]
  /\ contributionHistory = {}
  /\ winHistory = {}
  /\ rowLock = [t \in JackpotTypes |-> NoProc]
  /\ config = InitialConfig
  /\ initialized = FALSE
  /\ pc = [p \in Procs |-> "new"]
  /\ call = [p \in Procs |-> NoCall]
  /\ attempt = [p \in Procs |-> 0]
  /\ snap = [p \in Procs |-> [t \in JackpotTypes |-> NoRow]]
  /\ todo = [p \in Procs |-> {}]
  /\ txPools = [p \in Procs |-> [t \in JackpotTypes |-> NoRow]]
  /\ txWritten = [p \in Procs |-> {}]
  /\ txContrib = [p \in Procs |-> {}]
  /\ txWin = [p \in Procs |-> {}]
  /\ txData = [p \in Procs |-> NoData]
  /\ result = [p \in Procs |-> NoResult]
  /\ nFaults = 0
  /\ committed = [t \in JackpotTypes |-> [contribute |-> 0, win |-> 0, updateConfig |-> 0]]

Bets == 1 .. NumBets
\* balances of the user when the bets arrive
InitialBalances ==
  {[realBalance |-> 100, bonusBalance |-> 0],
   [realBalance |-> 0, bonusBalance |-> 100],
   [realBalance |-> 50, bonusBalance |-> 50]}
NoBet == [userId |-> UserId, gameId |-> GameId, wagerAmount |-> 0, winAmount |-> 0]
\* what findFirst gives for a user (with: userBalances) and for a balance row
NoUser == [found |-> FALSE, userBalances |-> <<>>]
FoundUser(balances) == [found |-> TRUE, userBalances |-> balances]
NoBalanceRow == [found |-> FALSE, realBalance |-> 0, bonusBalance |-> 0]
FoundBalance(bal) ==
  [found |-> TRUE, realBalance |-> bal.realBalance, bonusBalance |-> bal.bonusBalance]
NoDeduction == [success |-> FALSE, balanceType |-> "real", real |-> 0, bonus |-> 0]
NoBetResult ==
  [status |-> "none", wagerAmount |-> 0, winAmount |-> 0,
   realBalanceBefore |-> 0, bonusBalanceBefore |-> 0,
   realBalanceAfter |-> 0, bonusBalanceAfter |-> 0, balanceType |-> "real"]

InitBets ==
  /\ balanceLock = NoProc
  /\ bpc = [b \in Bets |-> "new"]
  /\ bcall = [b \in Bets |-> NoBet]
  /\ buser = [b \in Bets |-> None]
  /\ bbal = [b \in Bets |-> None]
  /\ bded = [b \in Bets |-> NoDeduction]
  /\ btx = [b \in Bets |-> None]
  /\ bres = [b \in Bets |-> NoBetResult]

\* no further row of any type in the jackpots table
InitRows == extraRows = [t \in JackpotTypes |-> 0]

LogCalls == 1 .. NumLogCalls
NoPayload ==
  [type |-> "NONE", relatedId |-> None, depositId |-> None,
   wagerAmount |-> None, winAmount |-> None, amount |-> None,
   realBalanceBefore |-> 0, realBalanceAfter |-> 0,
   bonusBalanceBefore |-> 0, bonusBalanceAfter |-> 0]
NoLogResult == [returned |-> FALSE, raised |-> FALSE, logged |-> FALSE]

\* the transaction log is empty and no logTransaction call has been made
InitLedger ==
  /\ ledger = {}
  /\ lpc = [l \in LogCalls |-> "new"]
  /\ lcall = [l \in LogCalls |-> NoPayload]
  /\ lres = [l \in LogCalls |-> NoLogResult]

DepositCalls == 1 .. NumDepositCalls
DepositId == "d1"
DepositAmount == 500
\* the row initiateDeposit inserted
PendingDeposit == [id |-> DepositId, userId |-> UserId, status |-> "PENDING", amount |-> DepositAmount]
NoConfirmation == [transactionId |-> "", amount |-> 0]
NoDepositResult ==
  [status |-> "none", depositId |-> "", amount |-> 0,
   realBalanceBefore |-> 0, bonusBalanceBefore |-> 0,
   realBalanceAfter |-> 0, bonusBalanceAfter |-> 0]

\* processDepositConfirmation has not returned and has started no listener
NoTasks ==
  [result |-> [status |-> "none", success |-> FALSE, depositId |-> "", amount |-> 0],
   vip |-> "idle", notification |-> "idle"]

\* one deposit is pending and no webhook confirmation has arrived
InitDeposits ==
  /\ deposit = PendingDeposit
  /\ dpc = [d \in DepositCalls |-> "new"]
  /\ dcall = [d \in DepositCalls |-> NoConfirmation]
  /\ dpending = [d \in DepositCalls |-> None]
  /\ dbal = [d \in DepositCalls |-> None]
  /\ dcredit = [d \in DepositCalls |-> None]
  /\ dtx = [d \in DepositCalls |-> None]
  /\ dres = [d \in DepositCalls |-> NoDepositResult]
  /\ dtask = [d \in DepositCalls |-> NoTasks]

\* addWinningsWithinTransaction's arguments and what it computed, each amount
\* a numerator over winDen, so that a winAmount that is no whole number
\* (gameOutcomeSchema asks only for a finite number >= 0) can be written
NoSplit ==
  [pc |-> "none", winNum |-> 0, winDen |-> 1,
   balanceDeduction |-> NoDeduction,
   realWinnings |-> 0, bonusWinnings |-> 0, realBalance |-> 0, bonusBalance |-> 0]

InitSplitIdle == split = NoSplit

InitExtras == InitRows /\ InitLedger /\ InitDeposits /\ InitSplitIdle

Init == InitJackpot /\ InitBets /\ InitExtras /\ balance = [realBalance |-> 100, bonusBalance |-> 0]

\* ------------------------------------------------------------ the store
\* what a statement of p's transaction reads for type t
View(p, t) == IF t \in txWritten[p] THEN txPools[p][t] ELSE pools[t]

\* (mutant) the row lock is not honoured
LockIgnored(p, t) == TRUE

\* an UPDATE or a locking read of row t by p can proceed
LockFree(p, t) == rowLock[t] \in {NoProc, p}

\* ensureInitialized: one transaction inserting the missing rows
EnsureInitialized ==
  /\ ~initialized
  /\ pools' = [t \in JackpotTypes |->
                 IF pools[t].present THEN pools[t] ELSE SeedRow(ConfigKeyOf(t))]
  /\ initialized' = TRUE
  /\ UNCHANGED <<contributionHistory, winHistory, rowLock, config, pc, call, attempt,
                 snap, todo, txPools, txWritten, txContrib, txWin, txData, result,
                 nFaults, committed>>
  /\ UNCHANGED <<bvars, xvars>>


\* ----------------------------------------------------- validation (zod)
\* JackpotContributionRequestSchema: wagerAmount is a positive integer
ValidContributionRequest(wagerAmount) == wagerAmount > 0

\* JackpotWinRequestSchema: winAmount, when given, is a positive integer
ValidWinRequest(winAmount) == winAmount = None \/ Val(winAmount) > 0

\* (mutant) the schema without its refinement of maxAmount against seedAmount
ValidTypeConfigUnrefined(c) ==
  /\ c.rate = None \/ (Val(c.rate) >= 0 /\ Val(c.rate) <= 1000)
  /\ c.seedAmount = None \/ Val(c.seedAmount) > 0
  /\ c.maxAmount = None \/ Val(c.maxAmount) > 0

\* JackpotTypeConfigSchema: rate in [0,1], positive integer seedAmount and
\* maxAmount, and the refinement !maxAmount || !seedAmount || maxAmount > seedAmount
ValidTypeConfig(c) ==
  /\ c.rate = None \/ (Val(c.rate) >= 0 /\ Val(c.rate) <= 1000)
  /\ c.seedAmount = None \/ Val(c.seedAmount) > 0
  /\ c.maxAmount = None \/ Val(c.maxAmount) > 0
  /\ ~Truthy(c.maxAmount) \/ ~Truthy(c.seedAmount) \/ Val(c.maxAmount) > Val(c.seedAmount)

\* --------------------------------------------------------- error kinds
\* AppError.isRetryable: a concurrency fault is retried, the others are not
IsRetryable(status) ==
  status \in {"CONCURRENCY_VERSION_CONFLICT", "CONCURRENCY_LOCK_TIMEOUT"}

\* getGameJackpotTypes: every game contributes to MINOR only
GameJackpotTypes == {"MINOR"}

\* the pool types a call's transaction works on
TypesOf(c) ==
  IF c.op = "contribute" THEN GameJackpotTypes
  ELSE IF c.op = "updateConfig" THEN {DbTypeOf(k) : k \in c.keys}
  ELSE {c.type}

\* ------------------------------------------------- contribute, per pool
\* (mutant) the contribution is not clamped to what maxAmount leaves
ActualContributionUncapped(cfg, currentAmount, wagerAmount) ==
  LET rate == OrElse(cfg.rate, 0)
  IN (wagerAmount \div 1000) * rate + ((wagerAmount % 1000) * rate) \div 1000

\* Math.floor(wagerAmount * rate) with the cap of the in-memory maxAmount
ActualContribution(cfg, currentAmount, wagerAmount) ==
  LET rate == OrElse(cfg.rate, 0)
      \* floor(wagerAmount * rate / 1000), split so that the product stays in range
      contribution == (wagerAmount \div 1000) * rate + ((wagerAmount % 1000) * rate) \div 1000
  IN IF contribution > 0
     THEN IF Truthy(cfg.maxAmount) /\ currentAmount + contribution > Val(cfg.maxAmount)
          THEN IF Val(cfg.maxAmount) - currentAmount > 0
               THEN Val(cfg.maxAmount) - currentAmount ELSE 0
          ELSE contribution
     ELSE 0

\* (mutant) the contribution forgets version = version + 1
ApplyContributionKeepVersion(row, a) ==
  [row EXCEPT !.currentAmount = @ + a, !.totalContributions = @ + a]

\* UPDATE jackpots SET current_amount = current_amount + a, ... version = version + 1
ApplyContribution(row, a) ==
  [row EXCEPT !.currentAmount = @ + a, !.totalContributions = @ + a, !.version = @ + 1]

\* id stands for the row's generated primary key
ContributionRecord(id, type, wagerAmount, a) ==
  [id |-> id, jackpotType |-> type, wagerAmount |-> wagerAmount, contributionAmount |-> a]

\* (mutant) the audit row is not written
InsertNothing(h, rec) == h

\* INSERT INTO jackpot_contribution_history
InsertContribution(h, rec) == h \cup {rec}

\* ------------------------------------------------------ win, on its pool
\* (mutant) without a winAmount the award is what the pool holds above its seed
ActualWinAmountAboveSeed(winAmount, row) ==
  OrElse(winAmount, row.currentAmount - row.seedAmount)

\* validatedWinAmount || pool.currentAmount
ActualWinAmount(winAmount, row) == OrElse(winAmount, row.currentAmount)

\* (mutant) the check against the pool's funds is missing
WinFaultNoFunds(actualWinAmount, row) ==
  IF actualWinAmount <= 0 THEN "VALIDATION_INVALID_AMOUNT" ELSE "ok"

\* the two checks of the win amount against the locked row
WinFault(actualWinAmount, row) ==
  IF actualWinAmount <= 0 THEN "VALIDATION_INVALID_AMOUNT"
  ELSE IF actualWinAmount > row.currentAmount THEN "INSUFFICIENT_JACKPOT_FUNDS"
  ELSE "ok"

\* (mutant) a win always sends the pool back to its seed
ResetAmountToSeed(row, actualWinAmount) == OrElse(Some(row.seedAmount), 0)

\* (mutant) the pool is left at what remains, without the floor of the seed
ResetAmountNoFloor(row, actualWinAmount) == row.currentAmount - actualWinAmount

\* newAmount < (pool.seedAmount || 0) ? pool.seedAmount || 0 : newAmount
ResetAmount(row, actualWinAmount) ==
  LET newAmount == row.currentAmount - actualWinAmount
  IN IF newAmount < OrElse(Some(row.seedAmount), 0)
     THEN OrElse(Some(row.seedAmount), 0) ELSE newAmount

\* (mutant) the win also clears the contribution total of the row
ApplyWinClearingTotal(row, resetAmount, a, userId) ==
  [row EXCEPT !.currentAmount = resetAmount, !.totalWins = @ + a,
              !.lastWonAmount = Some(a), !.lastWonByUserId = Some(userId),
              !.totalContributions = 0, !.version = @ + 1]

\* UPDATE jackpots SET current_amount = resetAmount, total_wins = total_wins + a, ...
ApplyWin(row, resetAmount, a, userId) ==
  [row EXCEPT !.currentAmount = resetAmount, !.totalWins = @ + a,
              !.lastWonAmount = Some(a), !.lastWonByUserId = Some(userId),
              !.version = @ + 1]

WinRecord(id, type, userId, a) ==
  [id |-> id, jackpotType |-> type, userId |-> userId, amountWon |-> a]

\* INSERT INTO jackpot_win_history
InsertWin(h, rec) == h \cup {rec}

\* ------------------------------------------------ updateConfig, per pool
\* this.config = { ...this.config, ...validatedConfig }
MergeConfig(cfg, keys, partial) == [k \in ConfigKeys |-> IF k \in keys THEN partial ELSE cfg[k]]

\* (mutant) the configuration update forgets version = version + 1
ApplyConfigKeepVersion(row, c) ==
  [row EXCEPT !.seedAmount = IF c.seedAmount # None THEN Val(c.seedAmount) ELSE @,
              !.maxAmount = IF c.maxAmount # None THEN c.maxAmount ELSE @,
              !.contributionRate = IF c.rate # None THEN Val(c.rate) ELSE @]

\* UPDATE jackpots SET <the fields present in the update>, version = version + 1
ApplyConfig(row, c) ==
  [row EXCEPT !.seedAmount = IF c.seedAmount # None THEN Val(c.seedAmount) ELSE @,
              !.maxAmount = IF c.maxAmount # None THEN c.maxAmount ELSE @,
              !.contributionRate = IF c.rate # None THEN Val(c.rate) ELSE @,
              !.version = @ + 1]

\* ------------------------------------------------ transaction plumbing
\* the transaction of p ends (commit or rollback): its locks and buffers go
EndTx(p) ==
  /\ rowLock' = [t \in JackpotTypes |-> IF rowLock[t] = p THEN NoProc ELSE rowLock[t]]
  /\ snap' = [snap EXCEPT ![p] = [t \in JackpotTypes |-> NoRow]]
  /\ todo' = [todo EXCEPT ![p] = {}]
  /\ txPools' = [txPools EXCEPT ![p] = [t \in JackpotTypes |-> NoRow]]
  /\ txWritten' = [txWritten EXCEPT ![p] = {}]
  /\ txContrib' = [txContrib EXCEPT ![p] = {}]
  /\ txWin' = [txWin EXCEPT ![p] = {}]
  /\ txData' = [txData EXCEPT ![p] = NoData]

\* the call of p returns or raises
Return(p, status, data) ==
  /\ pc' = [pc EXCEPT ![p] = "done"]
  /\ UNCHANGED attempt
  /\ result' = [result EXCEPT ![p] = [status |-> status, data |-> data]]

\* db.transaction rolls back: nothing of the transaction reaches the tables
Rollback ==
  UNCHANGED <<pools, contributionHistory, winHistory, committed>>

\* (mutant) the commit lets only one of the written rows through
CommitOneRow(p) ==
  /\ pools' = [t \in JackpotTypes |->
                 IF t \in txWritten[p] /\ t = (CHOOSE u \in txWritten[p] : TRUE)
                 THEN txPools[p][t] ELSE pools[t]]
  /\ contributionHistory' = contributionHistory \cup txContrib[p]
  /\ winHistory' = winHistory \cup txWin[p]
  /\ committed' = [t \in JackpotTypes |->
                     IF t \in txWritten[p] /\ t = (CHOOSE u \in txWritten[p] : TRUE)
                     THEN [committed[t] EXCEPT ![call[p].op] = @ + 1]
                     ELSE committed[t]]

\* db.transaction commits: the buffered writes reach the tables together
Commit(p) ==
  /\ pools' = [t \in JackpotTypes |-> IF t \in txWritten[p] THEN txPools[p][t] ELSE pools[t]]
  /\ contributionHistory' = contributionHistory \cup txContrib[p]
  /\ winHistory' = winHistory \cup txWin[p]
  /\ committed' = [t \in JackpotTypes |->
                     IF t \in txWritten[p]
                     THEN [committed[t] EXCEPT ![call[p].op] = @ + 1]
                     ELSE committed[t]]

\* `continue` in the retry loop: attempt++ and the loop test attempt <= maxRetries;
\* were the test to fail, the loop would be left and the throw placed after it
\* would raise "Max retries exceeded" as SYSTEM_UNEXPECTED_STATE
NextAttempt(p) ==
  IF attempt[p] + 1 <= MAX_RETRY_ATTEMPTS
  THEN /\ pc' = [pc EXCEPT ![p] = "read"]
       /\ attempt' = [attempt EXCEPT ![p] = @ + 1]
       /\ UNCHANGED result
  ELSE /\ pc' = [pc EXCEPT ![p] = "done"]
       /\ attempt' = [attempt EXCEPT ![p] = @ + 1]
       /\ result' = [result EXCEPT ![p] = [status |-> "SYSTEM_UNEXPECTED_STATE",
                                           data |-> NoData]]

\* (mutant) the catch block continues at the last attempt as well
RetryAtLastAttempt(p, retryable, status) ==
  IF retryable /\ attempt[p] <= MAX_RETRY_ATTEMPTS
  THEN NextAttempt(p)
  ELSE Return(p, status, NoData)

\* (mutant) the catch block retries whatever the fault is
RetryAnyFault(p, retryable, status) ==
  IF attempt[p] < MAX_RETRY_ATTEMPTS
  THEN /\ pc' = [pc EXCEPT ![p] = "read"]
       /\ attempt' = [attempt EXCEPT ![p] = @ + 1]
       /\ UNCHANGED result
  ELSE Return(p, status, NoData)

\* (mutant) an exhausted transient store failure is raised as a concurrency fault
StoreFaultByKind(transient) ==
  IF transient THEN "CONCURRENCY_VERSION_CONFLICT" ELSE "DATABASE_CONNECTION_FAILED"

\* createDatabaseError: a store failure that is not retried leaves the optimistic
\* executors as a database fault, transient or not
WrappedStoreFault(transient) == "DATABASE_CONNECTION_FAILED"

\* the catch block of the retry loop: retry a retryable fault while attempts remain
RetryOrRaise(p, retryable, status) ==
  IF retryable /\ attempt[p] < MAX_RETRY_ATTEMPTS
  THEN NextAttempt(p)
  ELSE Return(p, status, NoData)

\* (mutant) the version check accepts any version
VersionAny(original, current) == TRUE

\* the version check after the mutation: unchanged or exactly original + 1
VersionOk(original, current) == current = original \/ current = original + 1

\* ------------------------------------------------------------- actions
\* call p has not been made yet; calls are made in the order of their numbers
Startable(p) == pc[p] = "new" /\ (IF p = 1 THEN TRUE ELSE pc[p - 1] # "new")

\* contribute(gameId, wagerAmount) up to the start of the retry loop
StartContribute(p, wagerAmount) ==
  /\ Startable(p)
  /\ call' = [call EXCEPT ![p] = [NoCall EXCEPT !.op = "contribute",
                                                !.wagerAmount = wagerAmount]]
  /\ IF ~ValidContributionRequest(wagerAmount)
     THEN Return(p, "VALIDATION_INVALID_AMOUNT", NoData)
     ELSE /\ pc' = [pc EXCEPT ![p] = "read"]
          /\ attempt' = [attempt EXCEPT ![p] = 1]
          /\ UNCHANGED result
  /\ UNCHANGED <<pools, contributionHistory, winHistory, rowLock, config, initialized,
                 snap, todo, txPools, txWritten, txContrib, txWin, txData, nFaults, committed>>
  /\ UNCHANGED <<bvars, xvars>>

\* updateConfig(newConfig) up to the start of the retry loop
StartUpdateConfig(p, keys, partial) ==
  /\ Startable(p)
  /\ call' = [call EXCEPT ![p] = [NoCall EXCEPT !.op = "updateConfig", !.keys = keys,
                                                !.partial = partial]]
  /\ IF keys # {} /\ ~ValidTypeConfig(partial)
     THEN /\ Return(p, "VALIDATION_INVALID_CONFIG", NoData)
          /\ UNCHANGED config
     ELSE /\ config' = MergeConfig(config, keys, partial)
          /\ IF keys = {}
             THEN Return(p, "ok", NoData)
             ELSE /\ pc' = [pc EXCEPT ![p] = "read"]
                  /\ attempt' = [attempt EXCEPT ![p] = 1]
                  /\ UNCHANGED result
  /\ UNCHANGED <<pools, contributionHistory, winHistory, rowLock, initialized,
                 snap, todo, txPools, txWritten, txContrib, txWin, txData, nFaults, committed>>
  /\ UNCHANGED <<bvars, xvars>>

\* (mutant) the count of the rows read is not compared with the types asked for
AllFoundUnchecked(types) == TRUE

\* pools.length === types.length: every requested type has its row
AllFound(types) == \A t \in types : pools[t].present

\* batchOptimisticUpdate: open the transaction and read the pools of the call
BatchRead(p) ==
  /\ pc[p] = "read"
  /\ IF ~AllFound(TypesOf(call[p]))
     THEN /\ RetryOrRaise(p, IsRetryable("SYSTEM_UNEXPECTED_STATE"), "SYSTEM_UNEXPECTED_STATE")
          /\ UNCHANGED <<snap, todo>>
     ELSE /\ snap' = [snap EXCEPT ![p] = [t \in JackpotTypes |->
                         IF t \in TypesOf(call[p]) THEN pools[t] ELSE NoRow]]
          /\ todo' = [todo EXCEPT ![p] = TypesOf(call[p])]
          /\ pc' = [pc EXCEPT ![p] = "mutate"]
          /\ UNCHANGED <<attempt, result>>
  /\ UNCHANGED <<call, pools, contributionHistory, winHistory, rowLock, config, initialized,
                 txPools, txWritten, txContrib, txWin, txData, nFaults, committed>>
  /\ UNCHANGED <<bvars, xvars>>

\* contribute's mutation, one pool of the loop
ContributeMutate(p, t) ==
  /\ pc[p] = "mutate" /\ call[p].op = "contribute" /\ t \in todo[p]
  /\ LET a == ActualContribution(config[ConfigKeyOf(t)], snap[p][t].currentAmount,
                                 call[p].wagerAmount)
     IN IF a > 0
        THEN /\ LockFree(p, t)
             /\ rowLock' = [rowLock EXCEPT ![t] = p]
             /\ txPools' = [txPools EXCEPT ![p][t] = ApplyContribution(View(p, t), a)]
             /\ txWritten' = [txWritten EXCEPT ![p] = @ \cup {t}]
             /\ txContrib' = [txContrib EXCEPT ![p] =
                                InsertContribution(@, ContributionRecord(p, t, call[p].wagerAmount, a))]
             /\ txData' = [txData EXCEPT ![p].contributions[t] = a,
                                         ![p].totalContribution = @ + a]
        ELSE UNCHANGED <<rowLock, txPools, txWritten, txContrib, txData>>
  /\ todo' = [todo EXCEPT ![p] = @ \ {t}]
  /\ pc' = [pc EXCEPT ![p] = IF todo[p] = {t} THEN "verify" ELSE "mutate"]
  /\ UNCHANGED <<pools, contributionHistory, winHistory, config, initialized, call,
                 attempt, snap, txWin, result, nFaults, committed>>
  /\ UNCHANGED <<bvars, xvars>>

\* updateConfig's mutation, one pool of the loop
ConfigMutate(p, t) ==
  /\ pc[p] = "mutate" /\ call[p].op = "updateConfig" /\ t \in todo[p]
  /\ LockFree(p, t)
  /\ rowLock' = [rowLock EXCEPT ![t] = p]
  /\ txPools' = [txPools EXCEPT ![p][t] = ApplyConfig(View(p, t), call[p].partial)]
  /\ txWritten' = [txWritten EXCEPT ![p] = @ \cup {t}]
  /\ todo' = [todo EXCEPT ![p] = @ \ {t}]
  /\ pc' = [pc EXCEPT ![p] = IF todo[p] = {t} THEN "verify" ELSE "mutate"]
  /\ UNCHANGED <<pools, contributionHistory, winHistory, config, initialized, call,
                 attempt, snap, txContrib, txWin, txData, result, nFaults, committed>>
  /\ UNCHANGED <<bvars, xvars>>

\* batchOptimisticUpdate: re-read the versions, then commit or raise the conflict
VerifyCommit(p) ==
  /\ pc[p] = "verify"
  /\ IF \A t \in TypesOf(call[p]) : VersionOk(snap[p][t].version, View(p, t).version)
     THEN /\ Commit(p)
          /\ Return(p, "ok", txData[p])
     ELSE /\ Rollback
          /\ RetryOrRaise(p, IsRetryable("CONCURRENCY_VERSION_CONFLICT"),
                          "CONCURRENCY_VERSION_CONFLICT")
  /\ EndTx(p)
  /\ UNCHANGED <<call, config, initialized, nFaults>>
  /\ UNCHANGED <<bvars, xvars>>

\* processWin(type, gameId, userId, winAmount?) up to pessimisticUpdate
StartWin(p, type, winAmount) ==
  /\ Startable(p)
  /\ call' = [call EXCEPT ![p] = [NoCall EXCEPT !.op = "win", !.type = type,
                                                !.winAmount = winAmount]]
  /\ IF ~ValidWinRequest(winAmount)
     THEN Return(p, "VALIDATION_INVALID_AMOUNT", NoData)
     ELSE /\ pc' = [pc EXCEPT ![p] = "lock"]
          /\ attempt' = [attempt EXCEPT ![p] = 1]
          /\ UNCHANGED result
  /\ UNCHANGED <<pools, contributionHistory, winHistory, rowLock, config, initialized,
                 snap, todo, txPools, txWritten, txContrib, txWin, txData, nFaults, committed>>
  /\ UNCHANGED <<bvars, xvars>>

\* (mutant) the catch block does not tell the lock failure from other failures
PessimisticFaultPlain(concurrency) == "DATABASE_CONNECTION_FAILED"

\* the catch block of pessimisticUpdate on a store error: what isConcurrencyError
\* accepts, and lock-not-available (55P03), leave as a concurrency fault, the
\* rest as a database fault
PessimisticFault(concurrency) ==
  IF concurrency THEN "CONCURRENCY_LOCK_TIMEOUT" ELSE "DATABASE_CONNECTION_FAILED"

\* pessimisticUpdate: open the transaction, SELECT ... FOR UPDATE NOWAIT
WinLock(p) ==
  /\ pc[p] = "lock"
  /\ LET t == call[p].type
     IN IF ~LockFree(p, t)
        THEN /\ Return(p, PessimisticFault(TRUE), NoData)
             /\ UNCHANGED <<rowLock, snap>>
        ELSE IF ~pools[t].present
        THEN /\ Return(p, "SYSTEM_UNEXPECTED_STATE", NoData)
             /\ UNCHANGED <<rowLock, snap>>
        ELSE /\ rowLock' = [rowLock EXCEPT ![t] = p]
             /\ snap' = [snap EXCEPT ![p][t] = pools[t]]
             /\ pc' = [pc EXCEPT ![p] = "mutate"]
             /\ UNCHANGED <<attempt, result>>
  /\ UNCHANGED <<call, pools, contributionHistory, winHistory, config, initialized, todo,
                 txPools, txWritten, txContrib, txWin, txData, nFaults, committed>>
  /\ UNCHANGED <<bvars, xvars>>

\* processWin's mutation under the lock
WinMutate(p) ==
  /\ pc[p] = "mutate" /\ call[p].op = "win"
  /\ LET t == call[p].type
         pool == snap[p][t]
         actualWinAmount == ActualWinAmount(call[p].winAmount, pool)
         fault == WinFault(actualWinAmount, pool)
     IN IF fault # "ok"
        THEN /\ Rollback /\ EndTx(p)
             /\ Return(p, fault, NoData)
        ELSE /\ txPools' = [txPools EXCEPT ![p][t] =
                              ApplyWin(View(p, t), ResetAmount(pool, actualWinAmount),
                                       actualWinAmount, UserId)]
             /\ txWritten' = [txWritten EXCEPT ![p] = @ \cup {t}]
             /\ txWin' = [txWin EXCEPT ![p] = InsertWin(@, WinRecord(p, t, UserId, actualWinAmount))]
             /\ txData' = [txData EXCEPT ![p].actualWinAmount = actualWinAmount,
                                         ![p].remainingAmount = ResetAmount(pool, actualWinAmount)]
             /\ pc' = [pc EXCEPT ![p] = "commit"]
             /\ UNCHANGED <<pools, contributionHistory, winHistory, committed, rowLock,
                            snap, todo, txContrib, attempt, result>>
  /\ UNCHANGED <<call, config, initialized, nFaults>>
  /\ UNCHANGED <<bvars, xvars>>

\* pessimisticUpdate: the transaction commits and the call returns
WinCommit(p) ==
  /\ pc[p] = "commit"
  /\ Commit(p)
  /\ Return(p, "ok", txData[p])
  /\ EndTx(p)
  /\ UNCHANGED <<call, config, initialized, nFaults>>
  /\ UNCHANGED <<bvars, xvars>>

\* a statement of p's open transaction fails in the store; transient stands for
\* what isConcurrencyError accepts (serialization failure, deadlock, timeout, ...)
StoreFault(p, transient) ==
  /\ pc[p] \in {"read", "mutate", "verify", "lock", "commit"}
  /\ nFaults < MaxFaults
  /\ nFaults' = nFaults + 1
  /\ Rollback
  /\ EndTx(p)
  /\ IF call[p].op = "win"
     THEN Return(p, PessimisticFault(transient), NoData)
     ELSE RetryOrRaise(p, transient, WrappedStoreFault(transient))
  /\ UNCHANGED <<call, config, initialized>>
  /\ UNCHANGED <<bvars, xvars>>

\* ----------------------------------------------------------- public API
\* (mutant) the wrapper lets the fault of contribute through
ContributionRethrown(res) ==
  IF res.status = "ok"
  THEN [raised |-> FALSE, success |-> TRUE, contributions |-> res.data.contributions,
        totalContribution |-> res.data.totalContribution]
  ELSE [raised |-> TRUE, success |-> FALSE, contributions |-> res.data.contributions,
        totalContribution |-> res.data.totalContribution]

\* processJackpotContribution on the outcome res of jackpotManager.contribute:
\* the result of a success is passed on, a fault is caught and turned into zeros
ProcessJackpotContribution(res) ==
  IF res.status = "ok"
  THEN [raised |-> FALSE, success |-> TRUE, contributions |-> res.data.contributions,
        totalContribution |-> res.data.totalContribution]
  ELSE [raised |-> FALSE, success |-> FALSE,
        contributions |-> [t \in JackpotTypes |-> 0], totalContribution |-> 0]

\* onBetCompleted: the total of processJackpotContribution, 0 if that raised
OnBetCompleted(res) ==
  IF ProcessJackpotContribution(res).raised THEN 0
  ELSE ProcessJackpotContribution(res).totalContribution

Next ==
  \/ EnsureInitialized
  \/ \E p \in Procs, w \in Wagers : StartContribute(p, w)
  \/ \E p \in Procs, u \in ConfigUpdates : StartUpdateConfig(p, u.keys, u.partial)
  \/ \E p \in Procs, r \in WinRequests : StartWin(p, r.type, r.winAmount)
  \/ \E p \in Procs : BatchRead(p)
  \/ \E p \in Procs, t \in JackpotTypes : ContributeMutate(p, t)
  \/ \E p \in Procs, t \in JackpotTypes : ConfigMutate(p, t)
  \/ \E p \in Procs : VerifyCommit(p)
  \/ \E p \in Procs : WinLock(p)
  \/ \E p \in Procs : WinMutate(p)
  \/ \E p \in Procs : WinCommit(p)
  \/ \E p \in Procs, transient \in BOOLEAN : StoreFault(p, transient)

Spec == Init /\ [][Next]_vars

\* ------------------------------------------------- the parallel stress run
\* NumStressCalls contribute calls of the same wager against MINOR, started from
\* the state ensureInitialized and updateConfig({minor: {rate: 1}}) leave behind:
\* the in-memory configuration of minor has a rate of 1 and no maxAmount
StressProcs == 1 .. NumStressCalls
StressWager == 100
StressRow == [SeedRow("minor") EXCEPT !.contributionRate = 1000, !.version = 1]

InitStress ==
  /\ pools = [t \in JackpotTypes |-> IF t = "MINOR" THEN StressRow ELSE SeedRow(ConfigKeyOf(t))]
  /\ contributionHistory = {}
  /\ winHistory = {}
  /\ rowLock = [t \in JackpotTypes |-> NoProc]
  /\ config = MergeConfig(InitialConfig, {"minor"},
                          [rate |-> Some(1000), seedAmount |-> None, maxAmount |-> None])
  /\ initialized = TRUE
  /\ pc = [p \in StressProcs |-> "new"]
  /\ call = [p \in StressProcs |-> NoCall]
  /\ attempt = [p \in StressProcs |-> 0]
  /\ snap = [p \in StressProcs |-> [t \in JackpotTypes |-> NoRow]]
  /\ todo = [p \in StressProcs |-> {}]
  /\ txPools = [p \in StressProcs |-> [t \in JackpotTypes |-> NoRow]]
  /\ txWritten = [p \in StressProcs |-> {}]
  /\ txContrib = [p \in StressProcs |-> {}]
  /\ txWin = [p \in StressProcs |-> {}]
  /\ txData = [p \in StressProcs |-> NoData]
  /\ result = [p \in StressProcs |-> NoResult]
  /\ nFaults = 0
  /\ committed = [t \in JackpotTypes |-> [contribute |-> 0, win |-> 0, updateConfig |-> 0]]
  /\ InitBets /\ InitExtras /\ balance = [realBalance |-> 100, bonusBalance |-> 0]

NextStress ==
  \/ \E p \in StressProcs : StartContribute(p, StressWager)
  \/ \E p \in StressProcs : BatchRead(p)
  \/ \E p \in StressProcs : ContributeMutate(p, "MINOR")
  \/ \E p \in StressProcs : VerifyCommit(p)

SpecStress == InitStress /\ [][NextStress]_vars

\* ------------------------------------------------------ the bet transaction
\* betRequestSchema and gameOutcomeSchema: wagerAmount is a positive finite
\* number, winAmount a finite number that is not negative
ValidBetSchemas(wagerAmount, winAmount) ==
  /\ wagerAmount \notin NotFinite /\ wagerAmount > 0
  /\ winAmount \notin NotFinite /\ winAmount >= 0

\* (mutant) validateBet without its check of the funds
ValidateBetNoFunds(user, betAmount) ==
  IF betAmount < 10 THEN "BET_TOO_LOW"
  ELSE IF betAmount > 100000 THEN "BET_TOO_HIGH"
  ELSE IF user.userBalances = <<>> THEN "TypeError"
  ELSE "valid"

\* validateBet with its default restrictions, on the user read with its
\* userBalances; user.userBalances[0] of a user without a balance row is
\* undefined, and reading its realBalance throws
ValidateBet(user, betAmount) ==
  IF betAmount < 10 THEN "BET_TOO_LOW"
  ELSE IF betAmount > 100000 THEN "BET_TOO_HIGH"
  ELSE IF user.userBalances = <<>> THEN "TypeError"
  ELSE LET userBalance == user.userBalances[1].realBalance + user.userBalances[1].bonusBalance
       IN IF betAmount > userBalance THEN "INSUFFICIENT_BALANCE"
          ELSE IF userBalance - betAmount < 0 - 1000000 THEN "DAILY_LOSS_LIMIT_EXCEEDED"
          ELSE IF userBalance - betAmount < 0 - 500000 THEN "SESSION_LOSS_LIMIT_EXCEEDED"
          ELSE "valid"

\* (mutant) the allocator draws the wager without looking at the funds
DeductUnchecked(bal, amount) ==
  LET real == IF bal.realBalance < amount THEN bal.realBalance ELSE amount
  IN [success |-> TRUE,
      balanceType |-> IF amount - real = 0 THEN "real" ELSE IF real = 0 THEN "bonus" ELSE "mixed",
      real |-> real, bonus |-> amount - real]

\* deductBetAmount under "auto": the real balance first, the shortfall from the
\* bonus balance; exhausted funds make it report failure
DeductBetAmount(bal, amount) ==
  IF bal.realBalance + bal.bonusBalance < amount
  THEN NoDeduction
  ELSE LET real == IF bal.realBalance < amount THEN bal.realBalance ELSE amount
       IN [success |-> TRUE,
           balanceType |-> IF amount - real = 0 THEN "real"
                           ELSE IF real = 0 THEN "bonus" ELSE "mixed",
           real |-> real, bonus |-> amount - real]

\* Math.round(n / d) for n >= 0, d > 0
RoundDiv(n, d) == (2 * n + d) \div (2 * d)

\* (mutant) the winnings of a bonus-funded wager go to the real balance
RealWinningsLaundered(ded, winAmount) ==
  IF winAmount > 0
  THEN IF ded.balanceType = "mixed"
       THEN IF ded.real + ded.bonus = 0 THEN winAmount
            ELSE RoundDiv(winAmount * ded.real, ded.real + ded.bonus)
       ELSE winAmount
  ELSE 0

\* addWinningsWithinTransaction: the part of winAmount credited to the real balance
RealWinnings(ded, winAmount) ==
  IF winAmount > 0
  THEN IF ded.balanceType = "mixed"
       THEN IF ded.real + ded.bonus = 0 THEN winAmount
            ELSE RoundDiv(winAmount * ded.real, ded.real + ded.bonus)
       ELSE IF ded.balanceType = "bonus" THEN 0 ELSE winAmount
  ELSE 0

\* (mutant) the bonus part is its share rounded down instead of the remainder
BonusWinningsFloored(ded, winAmount) ==
  IF winAmount > 0
  THEN IF ded.balanceType = "mixed"
       THEN IF ded.real + ded.bonus = 0 THEN 0
            ELSE (winAmount * ded.bonus) \div (ded.real + ded.bonus)
       ELSE IF ded.balanceType = "bonus" THEN winAmount ELSE 0
  ELSE 0

\* (mutant) the bonus part is rounded on its own instead of taking the remainder
BonusWinningsRounded(ded, winAmount) ==
  IF winAmount > 0
  THEN IF ded.balanceType = "mixed"
       THEN IF ded.real + ded.bonus = 0 THEN 0
            ELSE RoundDiv(winAmount * ded.bonus, ded.real + ded.bonus)
       ELSE IF ded.balanceType = "bonus" THEN winAmount ELSE 0
  ELSE 0

\* addWinningsWithinTransaction: the part of winAmount credited to the bonus balance
BonusWinnings(ded, winAmount) ==
  IF winAmount > 0
  THEN IF ded.balanceType = "mixed"
       THEN IF ded.real + ded.bonus = 0 THEN 0
            ELSE winAmount - RealWinnings(ded, winAmount)
       ELSE IF ded.balanceType = "bonus" THEN winAmount ELSE 0
  ELSE 0

\* addWinnings: the credit reaches the balance row through the transaction
AddWinnings(bal, real, bonus) ==
  [realBalance |-> bal.realBalance + real, bonusBalance |-> bal.bonusBalance + bonus]

\* finalBalances, computed from the balances read before the transaction
FinalBalances(userBalance, ded, winAmount) ==
  [realBalance |-> userBalance.realBalance - ded.real + RealWinnings(ded, winAmount),
   bonusBalance |-> userBalance.bonusBalance - ded.bonus + BonusWinnings(ded, winAmount)]

\* (mutant) the writes of a failed transaction stay in the table
KeepWrites(b) == IF btx[b] = None THEN balance ELSE Val(btx[b])

\* db.transaction rolls back when its callback throws: the balance row is as before
RolledBack(b) == balance

BetStartable(b) == bpc[b] = "new" /\ (IF b = 1 THEN TRUE ELSE bpc[b - 1] # "new")

\* executeCoreBet raises: an open transaction is rolled back
BetRaise(b, status) ==
  /\ bpc' = [bpc EXCEPT ![b] = "done"]
  /\ bres' = [bres EXCEPT ![b] = [NoBetResult EXCEPT !.status = status]]
  /\ balance' = RolledBack(b)
  /\ balanceLock' = IF balanceLock = b THEN NoProc ELSE balanceLock
  /\ btx' = [btx EXCEPT ![b] = None]

\* executeCoreBet: parse the request and the outcome
StartBetFor(b, userId, gameId, wagerAmount, winAmount) ==
  /\ BetStartable(b)
  /\ bcall' = [bcall EXCEPT ![b] = [userId |-> userId, gameId |-> gameId,
                                     wagerAmount |-> wagerAmount, winAmount |-> winAmount]]
  /\ IF ~ValidBetSchemas(wagerAmount, winAmount)
     THEN BetRaise(b, "ZodError")
     ELSE /\ bpc' = [bpc EXCEPT ![b] = "reads"]
          /\ UNCHANGED <<bres, balance, balanceLock, btx>>
  /\ UNCHANGED <<buser, bbal, bded, nFaults, jvars, xvars>>

\* executeCoreBet for the user and the game of the runs
StartBet(b, wagerAmount, winAmount) == StartBetFor(b, UserId, GameId, wagerAmount, winAmount)

\* the user query of the Promise.all (with its userBalances)
ReadUser(b) ==
  /\ bpc[b] = "reads" /\ buser[b] = None
  /\ buser' = [buser EXCEPT ![b] =
                 Some(IF bcall[b].userId \notin Users THEN NoUser
                      ELSE IF bcall[b].userId \in BalanceOwners
                      THEN FoundUser(<<balance>>) ELSE FoundUser(<<>>))]
  /\ UNCHANGED <<balance, balanceLock, bpc, bcall, bbal, bded, btx, bres, nFaults, jvars, xvars>>

\* the userBalance query of the Promise.all
ReadBalance(b) ==
  /\ bpc[b] = "reads" /\ bbal[b] = None
  /\ bbal' = [bbal EXCEPT ![b] =
                Some(IF bcall[b].userId \in BalanceOwners
                     THEN FoundBalance(balance) ELSE NoBalanceRow)]
  /\ UNCHANGED <<balance, balanceLock, bpc, bcall, buser, bded, btx, bres, nFaults, jvars, xvars>>

\* validateBet on what was read, before the transaction
Validate(b) ==
  /\ bpc[b] = "reads" /\ buser[b] # None /\ bbal[b] # None
  /\ IF ~Val(buser[b]).found
     THEN BetRaise(b, "User not found")
     ELSE IF ValidateBet(Val(buser[b]), bcall[b].wagerAmount) # "valid"
     THEN BetRaise(b, ValidateBet(Val(buser[b]), bcall[b].wagerAmount))
     ELSE IF bcall[b].gameId \notin Games
     THEN BetRaise(b, "Game not found")
     ELSE IF ~Val(bbal[b]).found
     THEN BetRaise(b, "User balance not found")
     ELSE /\ bpc' = [bpc EXCEPT ![b] = "deduct"]
          /\ UNCHANGED <<bres, balance, balanceLock, btx>>
  /\ UNCHANGED <<bcall, buser, bbal, bded, nFaults, jvars, xvars>>

\* db.transaction opens; deductBetAmount works on the balance row through tx
Deduct(b) ==
  /\ bpc[b] = "deduct"
  /\ balanceLock \in {NoProc, b}
  /\ LET ded == DeductBetAmount(balance, bcall[b].wagerAmount)
     IN IF ~ded.success
        THEN /\ BetRaise(b, "Balance deduction failed")
             /\ UNCHANGED bded
        ELSE /\ bded' = [bded EXCEPT ![b] = ded]
             /\ btx' = [btx EXCEPT ![b] =
                          Some([realBalance |-> balance.realBalance - ded.real,
                                bonusBalance |-> balance.bonusBalance - ded.bonus])]
             /\ balanceLock' = b
             /\ bpc' = [bpc EXCEPT ![b] = "credit"]
             /\ UNCHANGED <<bres, balance>>
  /\ UNCHANGED <<bcall, buser, bbal, nFaults, jvars, xvars>>

\* addWinningsWithinTransaction credits the winnings through tx
Credit(b) ==
  /\ bpc[b] = "credit"
  /\ btx' = [btx EXCEPT ![b] =
               Some(AddWinnings(Val(btx[b]), RealWinnings(bded[b], bcall[b].winAmount),
                                BonusWinnings(bded[b], bcall[b].winAmount)))]
  /\ bpc' = [bpc EXCEPT ![b] = "commit"]
  /\ UNCHANGED <<balance, balanceLock, bcall, buser, bbal, bded, bres, nFaults, jvars, xvars>>

\* addWinnings reports failure: addWinningsWithinTransaction throws
CreditFails(b) ==
  /\ bpc[b] = "credit" /\ bcall[b].winAmount > 0
  /\ nFaults < MaxFaults
  /\ nFaults' = nFaults + 1
  /\ BetRaise(b, "Winnings addition failed")
  /\ UNCHANGED <<bcall, buser, bbal, bded, jvars, xvars>>

\* the transaction commits and executeCoreBet returns its result
BetCommit(b) ==
  /\ bpc[b] = "commit"
  /\ balance' = Val(btx[b])
  /\ balanceLock' = NoProc
  /\ btx' = [btx EXCEPT ![b] = None]
  /\ bpc' = [bpc EXCEPT ![b] = "done"]
  /\ bres' = [bres EXCEPT ![b] =
       LET final == FinalBalances(Val(bbal[b]), bded[b], bcall[b].winAmount)
       IN [status |-> "ok", wagerAmount |-> bcall[b].wagerAmount,
           winAmount |-> bcall[b].winAmount,
           realBalanceBefore |-> Val(bbal[b]).realBalance,
           bonusBalanceBefore |-> Val(bbal[b]).bonusBalance,
           realBalanceAfter |-> final.realBalance,
           bonusBalanceAfter |-> final.bonusBalance,
           balanceType |-> bded[b].balanceType]]
  /\ UNCHANGED <<bcall, buser, bbal, bded, nFaults, jvars, xvars>>

BetWagers == {0, 5, 60, 100}
BetWins == {0 - 1, 0, 75}

InitBet == InitJackpot /\ InitBets /\ InitExtras /\ balance \in InitialBalances

NextBet ==
  \/ \E b \in Bets, w \in BetWagers, x \in BetWins : StartBet(b, w, x)
  \/ \E b \in Bets : ReadUser(b)
  \/ \E b \in Bets : ReadBalance(b)
  \/ \E b \in Bets : Validate(b)
  \/ \E b \in Bets : Deduct(b)
  \/ \E b \in Bets : Credit(b)
  \/ \E b \in Bets : CreditFails(b)
  \/ \E b \in Bets : BetCommit(b)

SpecBet == InitBet /\ [][NextBet]_vars

\* ------------------------------------------------ optimistic executor runs
\* contribute calls, behind an updateConfig of two types as the first call,
\* through batchOptimisticUpdate, with store faults, against a jackpots table
\* that holds none, one or all of the pool rows
BatchWagers == {0, 100}
BatchUpdate ==
  [keys |-> {"minor", "major"},
   partial |-> [rate |-> Some(30), seedAmount |-> None, maxAmount |-> None]]
PresentSets == {{}, {"MINOR"}, JackpotTypes}

InitBatch ==
  /\ \E S \in PresentSets :
       /\ pools = [t \in JackpotTypes |-> IF t \in S THEN SeedRow(ConfigKeyOf(t)) ELSE NoRow]
       /\ initialized = (S = JackpotTypes)
  /\ contributionHistory = {}
  /\ winHistory = {}
  /\ rowLock = [t \in JackpotTypes |-> NoProc]
  /\ config = InitialConfig
  /\ pc = [p \in StressProcs |-> "new"]
  /\ call = [p \in StressProcs |-> NoCall]
  /\ attempt = [p \in StressProcs |-> 0]
  /\ snap = [p \in StressProcs |-> [t \in JackpotTypes |-> NoRow]]
  /\ todo = [p \in StressProcs |-> {}]
  /\ txPools = [p \in StressProcs |-> [t \in JackpotTypes |-> NoRow]]
  /\ txWritten = [p \in StressProcs |-> {}]
  /\ txContrib = [p \in StressProcs |-> {}]
  /\ txWin = [p \in StressProcs |-> {}]
  /\ txData = [p \in StressProcs |-> NoData]
  /\ result = [p \in StressProcs |-> NoResult]
  /\ nFaults = 0
  /\ committed = [t \in JackpotTypes |-> [contribute |-> 0, win |-> 0, updateConfig |-> 0]]
  /\ InitBets /\ InitExtras /\ balance = [realBalance |-> 100, bonusBalance |-> 0]

NextBatch ==
  \/ \E p \in StressProcs, w \in BatchWagers : StartContribute(p, w)
  \/ StartUpdateConfig(1, BatchUpdate.keys, BatchUpdate.partial)
  \/ EnsureInitialized
  \/ \E p \in StressProcs : BatchRead(p)
  \/ \E p \in StressProcs, t \in JackpotTypes : ContributeMutate(p, t)
  \/ \E p \in StressProcs, t \in JackpotTypes : ConfigMutate(p, t)
  \/ \E p \in StressProcs : VerifyCommit(p)
  \/ \E p \in StressProcs, transient \in BOOLEAN : StoreFault(p, transient)

SpecBatch == InitBatch /\ [][NextBatch]_vars

\* ------------------------------------------------------- win settlement runs
\* processWin calls, and contribute calls beside them, against a MINOR pool that
\* stands at, or well above, its seed
WinRows ==
  {[SeedRow("minor") EXCEPT !.currentAmount = 100, !.seedAmount = 20],
   [SeedRow("minor") EXCEPT !.currentAmount = 500, !.seedAmount = 20]}
\* the whole pool, an amount that meets the floor, two that do not, one too large
WinAmounts == {None, Some(90), Some(50), Some(100), Some(200)}

InitWin ==
  /\ pools \in {[t \in JackpotTypes |-> IF t = "MINOR" THEN row ELSE SeedRow(ConfigKeyOf(t))] :
                  row \in WinRows}
  /\ contributionHistory = {}
  /\ winHistory = {}
  /\ rowLock = [t \in JackpotTypes |-> NoProc]
  /\ config = InitialConfig
  /\ initialized = TRUE
  /\ pc = [p \in Procs |-> "new"]
  /\ call = [p \in Procs |-> NoCall]
  /\ attempt = [p \in Procs |-> 0]
  /\ snap = [p \in Procs |-> [t \in JackpotTypes |-> NoRow]]
  /\ todo = [p \in Procs |-> {}]
  /\ txPools = [p \in Procs |-> [t \in JackpotTypes |-> NoRow]]
  /\ txWritten = [p \in Procs |-> {}]
  /\ txContrib = [p \in Procs |-> {}]
  /\ txWin = [p \in Procs |-> {}]
  /\ txData = [p \in Procs |-> NoData]
  /\ result = [p \in Procs |-> NoResult]
  /\ nFaults = 0
  /\ committed = [t \in JackpotTypes |-> [contribute |-> 0, win |-> 0, updateConfig |-> 0]]
  /\ InitBets /\ InitExtras /\ balance = [realBalance |-> 100, bonusBalance |-> 0]

NextWin ==
  \/ \E p \in Procs, a \in WinAmounts : StartWin(p, "MINOR", a)
  \/ \E p \in Procs : StartContribute(p, StressWager)
  \/ \E p \in Procs : BatchRead(p)
  \/ \E p \in Procs : ContributeMutate(p, "MINOR")
  \/ \E p \in Procs : VerifyCommit(p)
  \/ \E p \in Procs : WinLock(p)
  \/ \E p \in Procs : WinMutate(p)
  \/ \E p \in Procs : WinCommit(p)

SpecWin == InitWin /\ [][NextWin]_vars

\* --------------------------------------------------- crediting the winnings
\* one bet of CreditWager stands inside its transaction, its wager deducted, at
\* the call of addWinningsWithinTransaction; the balanceDeduction it passes is
\* drawn from the shapes deductBetAmount can report
CreditWager == 10
MaxCreditWin == 12
CreditBalance == [realBalance |-> 10, bonusBalance |-> 10]
CreditDeductions ==
  {[success |-> TRUE, balanceType |-> "real", real |-> CreditWager, bonus |-> 0],
   [success |-> TRUE, balanceType |-> "bonus", real |-> 0, bonus |-> CreditWager],
   [success |-> TRUE, balanceType |-> "mixed", real |-> 0, bonus |-> 0]}
  \cup {[success |-> TRUE, balanceType |-> "mixed", real |-> r, bonus |-> CreditWager - r] :
          r \in 1 .. (CreditWager - 1)}

InitCredit ==
  /\ InitJackpot /\ InitExtras
  /\ balance = CreditBalance
  /\ balanceLock = 1
  /\ bpc = [b \in Bets |-> IF b = 1 THEN "credit" ELSE "new"]
  /\ \E w \in 0 .. MaxCreditWin :
       bcall = [b \in Bets |-> IF b = 1 THEN [NoBet EXCEPT !.wagerAmount = CreditWager,
                                                           !.winAmount = w]
                               ELSE NoBet]
  /\ buser = [b \in Bets |-> IF b = 1 THEN Some(FoundUser(<<CreditBalance>>)) ELSE None]
  /\ bbal = [b \in Bets |-> IF b = 1 THEN Some(FoundBalance(CreditBalance)) ELSE None]
  /\ \E ded \in CreditDeductions :
       /\ bded = [b \in Bets |-> IF b = 1 THEN ded ELSE NoDeduction]
       /\ btx = [b \in Bets |->
                   IF b = 1 THEN Some([realBalance |-> CreditBalance.realBalance - ded.real,
                                       bonusBalance |-> CreditBalance.bonusBalance - ded.bonus])
                   ELSE None]
  /\ bres = [b \in Bets |-> NoBetResult]

NextCredit ==
  \/ \E b \in Bets : Credit(b)
  \/ \E b \in Bets : BetCommit(b)

SpecCredit == InitCredit /\ [][NextCredit]_vars

\* ------------------------------------------------- winnings of any amount
\* addWinningsWithinTransaction called with a winAmount that need not be a
\* whole number: winAmount = winNum / winDen. The deductions are those of the
\* credit runs; every amount of the call is kept as a numerator over winDen.
WinDenominators == {1, 2, 10}
MaxWinNumerator == 12

\* realWinnings as a numerator over den: den * Math.round((num / den) * realRatio)
\* for a mixed deduction, the whole winAmount or nothing otherwise
RealWinningsOver(ded, num, den) ==
  IF num > 0
  THEN IF ded.balanceType = "mixed"
       THEN IF ded.real + ded.bonus = 0 THEN num
            ELSE den * RoundDiv(num * ded.real, den * (ded.real + ded.bonus))
       ELSE IF ded.balanceType = "bonus" THEN 0 ELSE num
  ELSE 0

\* bonusWinnings as a numerator over den: winAmount - realWinnings when mixed
BonusWinningsOver(ded, num, den) ==
  IF num > 0
  THEN IF ded.balanceType = "mixed"
       THEN IF ded.real + ded.bonus = 0 THEN 0
            ELSE num - RealWinningsOver(ded, num, den)
       ELSE IF ded.balanceType = "bonus" THEN num ELSE 0
  ELSE 0

\* addWinningsWithinTransaction computes the two parts and credits each through tx
SplitWinnings ==
  /\ split.pc = "credit"
  /\ LET ded == split.balanceDeduction
         realWinnings == RealWinningsOver(ded, split.winNum, split.winDen)
         bonusWinnings == BonusWinningsOver(ded, split.winNum, split.winDen)
     IN split' = [split EXCEPT !.pc = "done",
                               !.realWinnings = realWinnings,
                               !.bonusWinnings = bonusWinnings,
                               !.realBalance = @ + realWinnings,
                               !.bonusBalance = @ + bonusWinnings]
  /\ UNCHANGED <<jvars, nFaults, bvars, extraRows, lvars, dvars>>

\* the wager has been deducted inside the transaction and the outcome's
\* winAmount has passed gameOutcomeSchema: finite and not negative
InitSplit ==
  /\ InitJackpot /\ InitBets /\ InitRows /\ InitLedger /\ InitDeposits
  /\ balance = CreditBalance
  /\ \E num \in 0 .. MaxWinNumerator, den \in WinDenominators, ded \in CreditDeductions :
       split = [pc |-> "credit", winNum |-> num, winDen |-> den,
                balanceDeduction |-> ded, realWinnings |-> 0, bonusWinnings |-> 0,
                realBalance |-> den * (CreditBalance.realBalance - ded.real),
                bonusBalance |-> den * (CreditBalance.bonusBalance - ded.bonus)]

NextSplit == SplitWinnings

SpecSplit == InitSplit /\ [][NextSplit]_vars

\* ------------------------------------------------------ configuration runs
\* updateConfig calls, valid and invalid, and contribute calls beside them,
\* against the rows ensureInitialized has created
ConfigWager == 100
\* valid: a rate alone, a cap alone, seed and cap for two types;
\* invalid: a rate above 1, a rate below 0, a seed of 0, a negative seed,
\* a cap equal to the seed, a cap below the seed
ConfigInputs ==
  {[keys |-> {"minor"}, partial |-> [rate |-> Some(30), seedAmount |-> None, maxAmount |-> None]],
   [keys |-> {"minor"}, partial |-> [rate |-> None, seedAmount |-> None, maxAmount |-> Some(2000000)]],
   [keys |-> {"minor", "major"},
    partial |-> [rate |-> None, seedAmount |-> Some(200000), maxAmount |-> Some(1200000)]],
   [keys |-> {"minor"}, partial |-> [rate |-> Some(1001), seedAmount |-> None, maxAmount |-> None]],
   [keys |-> {"minor"}, partial |-> [rate |-> Some(0 - 1), seedAmount |-> None, maxAmount |-> None]],
   [keys |-> {"minor", "major"}, partial |-> [rate |-> None, seedAmount |-> Some(0), maxAmount |-> None]],
   [keys |-> {"mega"}, partial |-> [rate |-> Some(30), seedAmount |-> Some(0 - 5), maxAmount |-> None]],
   [keys |-> {"minor"},
    partial |-> [rate |-> None, seedAmount |-> Some(200000), maxAmount |-> Some(200000)]],
   [keys |-> {"minor", "major"},
    partial |-> [rate |-> Some(30), seedAmount |-> Some(200000), maxAmount |-> Some(150000)]]}

InitConfig ==
  /\ pools = [t \in JackpotTypes |-> SeedRow(ConfigKeyOf(t))]
  /\ contributionHistory = {}
  /\ winHistory = {}
  /\ rowLock = [t \in JackpotTypes |-> NoProc]
  /\ config = InitialConfig
  /\ initialized = TRUE
  /\ pc = [p \in Procs |-> "new"]
  /\ call = [p \in Procs |-> NoCall]
  /\ attempt = [p \in Procs |-> 0]
  /\ snap = [p \in Procs |-> [t \in JackpotTypes |-> NoRow]]
  /\ todo = [p \in Procs |-> {}]
  /\ txPools = [p \in Procs |-> [t \in JackpotTypes |-> NoRow]]
  /\ txWritten = [p \in Procs |-> {}]
  /\ txContrib = [p \in Procs |-> {}]
  /\ txWin = [p \in Procs |-> {}]
  /\ txData = [p \in Procs |-> NoData]
  /\ result = [p \in Procs |-> NoResult]
  /\ nFaults = 0
  /\ committed = [t \in JackpotTypes |-> [contribute |-> 0, win |-> 0, updateConfig |-> 0]]
  /\ InitBets /\ InitExtras /\ balance = [realBalance |-> 100, bonusBalance |-> 0]

NextConfig ==
  \/ \E p \in Procs, u \in ConfigInputs : StartUpdateConfig(p, u.keys, u.partial)
  \/ \E p \in Procs : StartContribute(p, ConfigWager)
  \/ \E p \in Procs : BatchRead(p)
  \/ \E p \in Procs, t \in JackpotTypes : ConfigMutate(p, t)
  \/ \E p \in Procs, t \in JackpotTypes : ContributeMutate(p, t)
  \/ \E p \in Procs : VerifyCommit(p)

SpecConfig == InitConfig /\ [][NextConfig]_vars

\* ---------------------------------------------------- the ledger writer
\* payload.relatedId || payload.depositId: undefined and "" are falsy
RelatedId(payload) ==
  IF payload.relatedId = None \/ payload.relatedId = Some("")
  THEN payload.depositId ELSE payload.relatedId

\* dbPayload: the columns every row of the call shares
BaseRow(id, payload) ==
  [id |-> id, type |-> payload.type, relatedId |-> RelatedId(payload), wagerAmount |-> 0,
   realBalanceBefore |-> payload.realBalanceBefore,
   realBalanceAfter |-> payload.realBalanceAfter,
   bonusBalanceBefore |-> payload.bonusBalanceBefore,
   bonusBalanceAfter |-> payload.bonusBalanceAfter]

\* the row of a DEPOSIT: payload.winAmount || payload.amount || 0 in wagerAmount
DepositRow(id, payload) ==
  [BaseRow(id, payload) EXCEPT
     !.type = "DEPOSIT",
     !.wagerAmount = OrElse(payload.winAmount, OrElse(payload.amount, 0))]

\* the debit row of a BET: payload.wagerAmount || 0
BetRow(id, payload) ==
  [BaseRow(id, payload) EXCEPT !.type = "BET", !.wagerAmount = OrElse(payload.wagerAmount, 0)]

\* (mutant) the credit row takes the balance after the bet as its balance before
WinRowFromAfter(id, payload) ==
  [BaseRow(id, payload) EXCEPT
     !.type = "WIN", !.wagerAmount = Val(payload.winAmount),
     !.realBalanceBefore = payload.realBalanceAfter,
     !.bonusBalanceBefore = payload.bonusBalanceAfter]

\* the credit row of a BET: winAmount in wagerAmount, the balances of the payload
WinRow(id, payload) ==
  [BaseRow(id, payload) EXCEPT !.type = "WIN", !.wagerAmount = Val(payload.winAmount)]

\* the row of any other type: payload.wagerAmount || payload.amount || 0
OtherRow(id, payload) ==
  [BaseRow(id, payload) EXCEPT
     !.wagerAmount = OrElse(payload.wagerAmount, OrElse(payload.amount, 0))]

\* (mutant) the credit row is never written
HasWinNever(payload) == FALSE

\* payload.winAmount && payload.winAmount > 0
HasWin(payload) == Truthy(payload.winAmount) /\ Val(payload.winAmount) > 0

\* (mutant) the catch block throws the failure on
RethrowLogFault == [returned |-> FALSE, raised |-> TRUE, logged |-> TRUE]

\* the catch block of logTransaction: the failure is logged, nothing is thrown
CatchLogFault == [returned |-> TRUE, raised |-> FALSE, logged |-> TRUE]

LogInserting == {"insertDeposit", "insertBet", "insertWin", "insertOther"}

\* logTransaction(payload) up to its first insert
LogBegin(l, payload) ==
  /\ lpc[l] = "new"
  /\ lcall' = [lcall EXCEPT ![l] = payload]
  /\ lpc' = [lpc EXCEPT ![l] = IF payload.type = "DEPOSIT" THEN "insertDeposit"
                               ELSE IF payload.type = "BET" THEN "insertBet"
                               ELSE "insertOther"]
  /\ UNCHANGED <<ledger, lres>>

\* log call l has not been made yet; calls are made in the order of their numbers
LogStartable(l) == lpc[l] = "new" /\ (IF l = 1 THEN TRUE ELSE lpc[l - 1] # "new")

\* a listener, or a replay of it, calls logTransaction(payload)
LogStart(l, payload) ==
  /\ LogStartable(l)
  /\ LogBegin(l, payload)
  /\ UNCHANGED <<jvars, nFaults, bvars, extraRows, dvars, split>>

\* db.insert(transactionLogTable).values(...) succeeds; the row's id is generated
LogInsert(l) ==
  /\ lpc[l] \in LogInserting
  /\ ledger' = ledger \cup
       {IF lpc[l] = "insertDeposit" THEN DepositRow(<<l, "DEPOSIT">>, lcall[l])
        ELSE IF lpc[l] = "insertBet" THEN BetRow(<<l, "BET">>, lcall[l])
        ELSE IF lpc[l] = "insertWin" THEN WinRow(<<l, "WIN">>, lcall[l])
        ELSE OtherRow(<<l, "OTHER">>, lcall[l])}
  /\ IF lpc[l] = "insertBet" /\ HasWin(lcall[l])
     THEN /\ lpc' = [lpc EXCEPT ![l] = "insertWin"]
          /\ UNCHANGED lres
     ELSE /\ lpc' = [lpc EXCEPT ![l] = "done"]
          /\ lres' = [lres EXCEPT ![l] = [returned |-> TRUE, raised |-> FALSE, logged |-> FALSE]]
  /\ UNCHANGED <<lcall, jvars, nFaults, bvars, extraRows, dvars, split>>

\* an insert of log call l fails in the store
LogFault(l) ==
  /\ lpc[l] \in LogInserting
  /\ nFaults < MaxFaults
  /\ nFaults' = nFaults + 1
  /\ lpc' = [lpc EXCEPT ![l] = "done"]
  /\ lres' = [lres EXCEPT ![l] = CatchLogFault]
  /\ UNCHANGED <<ledger, lcall, jvars, bvars, extraRows, dvars, split>>

\* payloads: what the bet listener passes for a lost bet, a won bet and a bet
\* whose outcome has no winAmount; what the deposit listener passes; a deposit
\* logged with amount and depositId only; a withdrawal
LogPayloads ==
  {[NoPayload EXCEPT !.type = "BET", !.relatedId = Some("b1"),
                     !.wagerAmount = Some(60), !.winAmount = Some(0),
                     !.realBalanceBefore = 100, !.realBalanceAfter = 40],
   [NoPayload EXCEPT !.type = "BET", !.relatedId = Some("b2"),
                     !.wagerAmount = Some(60), !.winAmount = Some(75),
                     !.realBalanceBefore = 50, !.realBalanceAfter = 84,
                     !.bonusBalanceBefore = 50, !.bonusBalanceAfter = 31],
   [NoPayload EXCEPT !.type = "BET", !.relatedId = Some("b3"),
                     !.wagerAmount = Some(60), !.winAmount = None,
                     !.realBalanceBefore = 100, !.realBalanceAfter = 40],
   [NoPayload EXCEPT !.type = "DEPOSIT", !.relatedId = Some(DepositId),
                     !.wagerAmount = Some(0), !.winAmount = Some(DepositAmount),
                     !.realBalanceBefore = 100, !.realBalanceAfter = 100 + DepositAmount],
   [NoPayload EXCEPT !.type = "DEPOSIT", !.depositId = Some(DepositId),
                     !.wagerAmount = None, !.winAmount = None, !.amount = Some(DepositAmount),
                     !.realBalanceBefore = 100, !.realBalanceAfter = 100 + DepositAmount],
   [NoPayload EXCEPT !.type = "WITHDRAWAL", !.relatedId = Some("w1"),
                     !.wagerAmount = None, !.winAmount = None, !.amount = Some(50),
                     !.realBalanceBefore = 100, !.realBalanceAfter = 50]}

InitLedgerRun ==
  InitJackpot /\ InitBets /\ InitExtras /\ balance = [realBalance |-> 100, bonusBalance |-> 0]

NextLedger ==
  \/ \E l \in LogCalls, payload \in LogPayloads : LogStart(l, payload)
  \/ \E l \in LogCalls : LogInsert(l)
  \/ \E l \in LogCalls : LogFault(l)

SpecLedger == InitLedgerRun /\ [][NextLedger]_vars

\* --------------------------------------------------- the deposit transaction
\* the variables of the bet transaction other than the balance row
bcalls == <<balanceLock, bpc, bcall, buser, bbal, bded, btx, bres>>

\* handleDeposit: the amount is added to the real balance
HandleDeposit(bal, amount) ==
  [realBalance |-> bal.realBalance + amount, bonusBalance |-> bal.bonusBalance]

DepositStartable(d) == dpc[d] = "new" /\ (IF d = 1 THEN TRUE ELSE dpc[d - 1] # "new")

\* executeCoreDeposit raises: an open transaction is rolled back
DepositRaise(d, status) ==
  /\ dpc' = [dpc EXCEPT ![d] = "done"]
  /\ dres' = [dres EXCEPT ![d] = [NoDepositResult EXCEPT !.status = status]]
  /\ dtx' = [dtx EXCEPT ![d] = None]
  /\ UNCHANGED deposit

\* the webhook confirmation arrives: executeCoreDeposit(confirmation)
StartDeposit(d, transactionId, amount) ==
  /\ DepositStartable(d)
  /\ dcall' = [dcall EXCEPT ![d] = [transactionId |-> transactionId, amount |-> amount]]
  /\ dpc' = [dpc EXCEPT ![d] = "find"]
  /\ UNCHANGED <<deposit, dpending, dbal, dcredit, dtx, dres>>
  /\ UNCHANGED <<jvars, nFaults, bvars, extraRows, lvars, dtask, split>>

\* the deposit row is looked up by id and compared with the confirmation; its
\* status is not looked at
FindDeposit(d) ==
  /\ dpc[d] = "find"
  /\ IF dcall[d].transactionId # deposit.id
     THEN /\ DepositRaise(d, "No pending deposit found for this transaction")
          /\ UNCHANGED dpending
     ELSE IF dcall[d].amount < deposit.amount
     THEN /\ DepositRaise(d, "Confirmation amount is less than pending deposit amount")
          /\ UNCHANGED dpending
     ELSE /\ dpending' = [dpending EXCEPT ![d] = Some(deposit)]
          /\ dpc' = [dpc EXCEPT ![d] = "balance"]
          /\ UNCHANGED <<deposit, dtx, dres>>
  /\ UNCHANGED <<dcall, dbal, dcredit>>
  /\ UNCHANGED <<jvars, nFaults, bvars, extraRows, lvars, dtask, split>>

\* getDetailedBalance, before the transaction
ReadDepositBalance(d) ==
  /\ dpc[d] = "balance"
  /\ dbal' = [dbal EXCEPT ![d] = Some(balance)]
  /\ dpc' = [dpc EXCEPT ![d] = "credit"]
  /\ UNCHANGED <<deposit, dcall, dpending, dcredit, dtx, dres>>
  /\ UNCHANGED <<jvars, nFaults, bvars, extraRows, lvars, dtask, split>>

\* db.transaction opens; handleDeposit is called without tx: its write goes
\* through db, outside the transaction, and stands once the call has returned
CreditWallet(d) ==
  /\ dpc[d] = "credit"
  /\ balanceLock = NoProc
  /\ balance' = HandleDeposit(balance, Val(dpending[d]).amount)
  /\ dcredit' = [dcredit EXCEPT ![d] = Some(HandleDeposit(balance, Val(dpending[d]).amount))]
  /\ dpc' = [dpc EXCEPT ![d] = "mark"]
  /\ UNCHANGED <<deposit, dcall, dpending, dbal, dtx, dres>>
  /\ UNCHANGED <<jvars, nFaults, bcalls, extraRows, lvars, dtask, split>>

\* tx.update(depositTable).set({status: "COMPLETED"}): the row is locked and the
\* update is held by the transaction
MarkCompleted(d) ==
  /\ dpc[d] = "mark"
  /\ \A e \in DepositCalls : dtx[e] = None
  /\ dtx' = [dtx EXCEPT ![d] = Some([deposit EXCEPT !.status = "COMPLETED"])]
  /\ dpc' = [dpc EXCEPT ![d] = "commit"]
  /\ UNCHANGED <<deposit, dcall, dpending, dbal, dcredit, dres>>
  /\ UNCHANGED <<jvars, nFaults, bvars, extraRows, lvars, dtask, split>>

\* the transaction commits and executeCoreDeposit returns its result
DepositCommit(d) ==
  /\ dpc[d] = "commit"
  /\ deposit' = Val(dtx[d])
  /\ dtx' = [dtx EXCEPT ![d] = None]
  /\ dpc' = [dpc EXCEPT ![d] = "done"]
  /\ dres' = [dres EXCEPT ![d] =
       [status |-> "ok", depositId |-> Val(dpending[d]).id,
        amount |-> Val(dpending[d]).amount,
        realBalanceBefore |-> Val(dbal[d]).realBalance,
        bonusBalanceBefore |-> Val(dbal[d]).bonusBalance,
        realBalanceAfter |-> Val(dcredit[d]).realBalance,
        bonusBalanceAfter |-> Val(dcredit[d]).bonusBalance]]
  /\ UNCHANGED <<dcall, dpending, dbal, dcredit>>
  /\ UNCHANGED <<jvars, nFaults, bvars, extraRows, lvars, dtask, split>>

\* a statement of executeCoreDeposit fails in the store: a read, the call of
\* handleDeposit, the update of the deposit row, or the commit
DepositFault(d) ==
  /\ dpc[d] \in {"find", "balance", "credit", "mark", "commit"}
  /\ nFaults < MaxFaults
  /\ nFaults' = nFaults + 1
  /\ DepositRaise(d, "store failure")
  /\ UNCHANGED <<dcall, dpending, dbal, dcredit>>
  /\ UNCHANGED <<jvars, bvars, extraRows, lvars, dtask, split>>

\* processDepositConfirmation hands the result to the deposit listener, which
\* calls logTransaction without being awaited
OnDepositCompleted(d) ==
  /\ d \in LogCalls
  /\ dpc[d] = "done" /\ dres[d].status = "ok"
  /\ LogBegin(d, [NoPayload EXCEPT
                    !.type = "DEPOSIT", !.relatedId = Some(dres[d].depositId),
                    !.wagerAmount = Some(0), !.winAmount = Some(dres[d].amount),
                    !.realBalanceBefore = dres[d].realBalanceBefore,
                    !.realBalanceAfter = dres[d].realBalanceAfter,
                    !.bonusBalanceBefore = dres[d].bonusBalanceBefore,
                    !.bonusBalanceAfter = dres[d].bonusBalanceAfter])
  /\ UNCHANGED <<jvars, nFaults, bvars, extraRows, dvars, split>>

\* confirmations for the pending deposit and for an unknown one, with the full
\* amount and with less
ConfirmationIds == {DepositId, "d0"}
ConfirmationAmounts == {DepositAmount, DepositAmount - 100}

InitDeposit ==
  InitJackpot /\ InitBets /\ InitExtras /\ balance = [realBalance |-> 100, bonusBalance |-> 0]

NextDeposit ==
  \/ \E d \in DepositCalls, id \in ConfirmationIds, a \in ConfirmationAmounts :
       StartDeposit(d, id, a)
  \/ \E d \in DepositCalls : FindDeposit(d)
  \/ \E d \in DepositCalls : ReadDepositBalance(d)
  \/ \E d \in DepositCalls : CreditWallet(d)
  \/ \E d \in DepositCalls : MarkCompleted(d)
  \/ \E d \in DepositCalls : DepositCommit(d)
  \/ \E d \in DepositCalls : DepositFault(d)
  \/ \E d \in DepositCalls : OnDepositCompleted(d)
  \/ \E l \in LogCalls : LogInsert(l)
  \/ \E l \in LogCalls : LogFault(l)

SpecDeposit == InitDeposit /\ [][NextDeposit]_vars

\* ------------------------------------------------------- admission of a bet
\* Requests of executeCoreBet that it refuses, next to ones it takes: amounts
\* that are not finite, not positive or negative, users, games and balance
\* rows that are missing, and wagers outside the limits or the funds.
AdmitRequests ==
  {[NoBet EXCEPT !.wagerAmount = 60, !.winAmount = 75],
   [NoBet EXCEPT !.wagerAmount = 100],
   [NoBet EXCEPT !.wagerAmount = 0],
   [NoBet EXCEPT !.wagerAmount = Infinity],
   [NoBet EXCEPT !.wagerAmount = NaN],
   [NoBet EXCEPT !.wagerAmount = 60, !.winAmount = 0 - 1],
   [NoBet EXCEPT !.wagerAmount = 60, !.winAmount = Infinity],
   [NoBet EXCEPT !.wagerAmount = 60, !.userId = "u0"],
   [NoBet EXCEPT !.wagerAmount = 60, !.userId = "u2"],
   [NoBet EXCEPT !.wagerAmount = 5, !.userId = "u2"],
   [NoBet EXCEPT !.wagerAmount = 60, !.gameId = "g0"],
   [NoBet EXCEPT !.wagerAmount = 5],
   [NoBet EXCEPT !.wagerAmount = 200000],
   [NoBet EXCEPT !.wagerAmount = 150]}

InitAdmit == InitJackpot /\ InitBets /\ InitExtras /\ balance \in InitialBalances

NextAdmit ==
  \/ \E b \in Bets, r \in AdmitRequests :
       StartBetFor(b, r.userId, r.gameId, r.wagerAmount, r.winAmount)
  \/ \E b \in Bets : ReadUser(b)
  \/ \E b \in Bets : ReadBalance(b)
  \/ \E b \in Bets : Validate(b)
  \/ \E b \in Bets : Deduct(b)
  \/ \E b \in Bets : Credit(b)
  \/ \E b \in Bets : CreditFails(b)
  \/ \E b \in Bets : BetCommit(b)

SpecAdmit == InitAdmit /\ [][NextAdmit]_vars

\* ------------------------------------------------------ pool initialization
\* getPool and getAllPools await ensureInitialized, whose transaction selects
\* the rows of the three types and inserts a row for every type it did not
\* see. The jackpots table has no unique constraint on jackpot_type, so an
\* insert of a type that another transaction inserted meanwhile adds a row.

\* rows found in the table when the process starts
ExistingRow(t) == [SeedRow(ConfigKeyOf(t)) EXCEPT !.currentAmount = @ + 700,
                                                   !.totalContributions = 700, !.version = 3]

\* getPool(type) and getAllPools(): the initialized flag is read on entry
StartGet(p, op, type) ==
  /\ Startable(p)
  /\ call' = [call EXCEPT ![p] = [NoCall EXCEPT !.op = op, !.type = type]]
  /\ pc' = [pc EXCEPT ![p] = IF initialized THEN "select" ELSE "initRead"]
  /\ UNCHANGED <<pools, contributionHistory, winHistory, rowLock, config, initialized,
                 attempt, snap, todo, txPools, txWritten, txContrib, txWin, txData,
                 result, committed, nFaults, bvars, xvars>>

\* ensureInitialized: the select of the existing rows
InitRead(p) ==
  /\ pc[p] = "initRead"
  /\ todo' = [todo EXCEPT ![p] = {t \in JackpotTypes : ~pools[t].present}]
  /\ pc' = [pc EXCEPT ![p] = "initInsert"]
  /\ UNCHANGED <<pools, contributionHistory, winHistory, rowLock, config, initialized,
                 call, attempt, snap, txPools, txWritten, txContrib, txWin, txData,
                 result, committed, nFaults, bvars, xvars>>

\* ensureInitialized: the inserts of the types not seen, the commit, and the
\* flag set after it
InitInsert(p) ==
  /\ pc[p] = "initInsert"
  /\ pools' = [t \in JackpotTypes |->
                 IF t \in todo[p] /\ ~pools[t].present THEN SeedRow(ConfigKeyOf(t))
                 ELSE pools[t]]
  /\ extraRows' = [t \in JackpotTypes |->
                     IF t \in todo[p] /\ pools[t].present THEN extraRows[t] + 1
                     ELSE extraRows[t]]
  /\ initialized' = TRUE
  /\ todo' = [todo EXCEPT ![p] = {}]
  /\ pc' = [pc EXCEPT ![p] = "select"]
  /\ UNCHANGED <<contributionHistory, winHistory, rowLock, config, call, attempt, snap,
                 txPools, txWritten, txContrib, txWin, txData, result, committed,
                 nFaults, bvars, lvars, dvars, split>>

\* a store failure inside ensureInitialized: the transaction rolls back, the
\* flag stays unset and the call raises what categorizeError(error, context,
\* "SYSTEM") makes of it
InitFault(p) ==
  /\ pc[p] \in {"initRead", "initInsert"}
  /\ nFaults < MaxFaults
  /\ nFaults' = nFaults + 1
  /\ todo' = [todo EXCEPT ![p] = {}]
  /\ Return(p, "SYSTEM", NoData)
  /\ UNCHANGED <<pools, contributionHistory, winHistory, rowLock, config, initialized,
                 call, snap, txPools, txWritten, txContrib, txWin, txData, committed,
                 bvars, xvars>>

\* the select of getPool (the row of the type) or getAllPools (all rows)
SelectPools(p) ==
  /\ pc[p] = "select"
  /\ IF call[p].op = "getPool" /\ ~pools[call[p].type].present
     THEN Return(p, "SYSTEM_UNEXPECTED_STATE", NoData)
     ELSE Return(p, "ok", NoData)
  /\ UNCHANGED <<pools, contributionHistory, winHistory, rowLock, config, initialized,
                 call, snap, todo, txPools, txWritten, txContrib, txWin, txData,
                 committed, nFaults, bvars, xvars>>

\* a fresh process over a table that holds none, one or all of the rows
InitInit ==
  /\ \E S \in PresentSets :
       pools = [t \in JackpotTypes |-> IF t \in S THEN ExistingRow(t) ELSE NoRow]
  /\ initialized = FALSE
  /\ contributionHistory = {}
  /\ winHistory = {}
  /\ rowLock = [t \in JackpotTypes |-> NoProc]
  /\ config = InitialConfig
  /\ pc = [p \in Procs |-> "new"]
  /\ call = [p \in Procs |-> NoCall]
  /\ attempt = [p \in Procs |-> 0]
  /\ snap = [p \in Procs |-> [t \in JackpotTypes |-> NoRow]]
  /\ todo = [p \in Procs |-> {}]
  /\ txPools = [p \in Procs |-> [t \in JackpotTypes |-> NoRow]]
  /\ txWritten = [p \in Procs |-> {}]
  /\ txContrib = [p \in Procs |-> {}]
  /\ txWin = [p \in Procs |-> {}]
  /\ txData = [p \in Procs |-> NoData]
  /\ result = [p \in Procs |-> NoResult]
  /\ nFaults = 0
  /\ committed = [t \in JackpotTypes |-> [contribute |-> 0, win |-> 0, updateConfig |-> 0]]
  /\ InitBets /\ InitExtras /\ balance = [realBalance |-> 100, bonusBalance |-> 0]

NextInit ==
  \/ \E p \in Procs : StartGet(p, "getAllPools", "MINOR")
  \/ \E p \in Procs, t \in JackpotTypes : StartGet(p, "getPool", t)
  \/ \E p \in Procs : InitRead(p)
  \/ \E p \in Procs : InitInsert(p)
  \/ \E p \in Procs : InitFault(p)
  \/ \E p \in Procs : SelectPools(p)

SpecInit == InitInit /\ [][NextInit]_vars

\* -------------------------------------------------- contributions at the cap
\* The MINOR pool stands just below, at or above the maxAmount of the
\* configuration; the wagers compute 0 (40 at 2%), 2 (100) and 10 (500), so
\* that contributions pass whole, are clamped to a rest, and are clamped to 0.
CapWagers == {40, 100, 500}
CapRows ==
  {[SeedRow("minor") EXCEPT !.currentAmount = c, !.version = 1] :
     c \in {DefaultJackpotConfig.minor.maxAmount - 5,
            DefaultJackpotConfig.minor.maxAmount,
            DefaultJackpotConfig.minor.maxAmount + 3}}

InitCap ==
  /\ pools \in {[t \in JackpotTypes |-> IF t = "MINOR" THEN row ELSE SeedRow(ConfigKeyOf(t))] :
                  row \in CapRows}
  /\ contributionHistory = {}
  /\ winHistory = {}
  /\ rowLock = [t \in JackpotTypes |-> NoProc]
  /\ config = InitialConfig
  /\ initialized = TRUE
  /\ pc = [p \in Procs |-> "new"]
  /\ call = [p \in Procs |-> NoCall]
  /\ attempt = [p \in Procs |-> 0]
  /\ snap = [p \in Procs |-> [t \in JackpotTypes |-> NoRow]]
  /\ todo = [p \in Procs |-> {}]
  /\ txPools = [p \in Procs |-> [t \in JackpotTypes |-> NoRow]]
  /\ txWritten = [p \in Procs |-> {}]
  /\ txContrib = [p \in Procs |-> {}]
  /\ txWin = [p \in Procs |-> {}]
  /\ txData = [p \in Procs |-> NoData]
  /\ result = [p \in Procs |-> NoResult]
  /\ nFaults = 0
  /\ committed = [t \in JackpotTypes |-> [contribute |-> 0, win |-> 0, updateConfig |-> 0]]
  /\ InitBets /\ InitExtras /\ balance = [realBalance |-> 100, bonusBalance |-> 0]

NextCap ==
  \/ \E p \in Procs, w \in CapWagers : StartContribute(p, w)
  \/ \E p \in Procs : BatchRead(p)
  \/ \E p \in Procs : ContributeMutate(p, "MINOR")
  \/ \E p \in Procs : VerifyCommit(p)

SpecCap == InitCap /\ [][NextCap]_vars

\* ------------------------------------------------- the deposit confirmation
\* (mutant) a failure of the core deposit is raised to the caller
ConfirmationResultRethrown(core, confirmation) ==
  IF core.status = "ok"
  THEN [status |-> "returned", success |-> TRUE,
        depositId |-> core.depositId, amount |-> core.amount]
  ELSE [status |-> "raised", success |-> FALSE,
        depositId |-> confirmation.transactionId, amount |-> 0]

\* what processDepositConfirmation returns: from its try block when
\* executeCoreDeposit returned, from its catch block when it raised
ConfirmationResult(core, confirmation) ==
  IF core.status = "ok"
  THEN [status |-> "returned", success |-> TRUE,
        depositId |-> core.depositId, amount |-> core.amount]
  ELSE [status |-> "returned", success |-> FALSE,
        depositId |-> confirmation.transactionId, amount |-> 0]

\* processDepositConfirmation after executeCoreDeposit: on success the three
\* listeners are called, each running up to its first await (the ledger
\* listener up to logTransaction's first insert), Promise.allSettled is not
\* awaited, and the call returns
ConfirmDeposit(d) ==
  /\ d \in LogCalls
  /\ dpc[d] = "done" /\ dtask[d].result.status = "none"
  /\ dtask' = [dtask EXCEPT ![d] =
       [result |-> ConfirmationResult(dres[d], dcall[d]),
        vip |-> IF dres[d].status = "ok" THEN "running" ELSE "idle",
        notification |-> IF dres[d].status = "ok" THEN "running" ELSE "idle"]]
  /\ IF dres[d].status = "ok"
     THEN LogBegin(d, [NoPayload EXCEPT
                         !.type = "DEPOSIT", !.relatedId = Some(dres[d].depositId),
                         !.wagerAmount = Some(0), !.winAmount = Some(dres[d].amount),
                         !.realBalanceBefore = dres[d].realBalanceBefore,
                         !.realBalanceAfter = dres[d].realBalanceAfter,
                         !.bonusBalanceBefore = dres[d].bonusBalanceBefore,
                         !.bonusBalanceAfter = dres[d].bonusBalanceAfter])
     ELSE UNCHANGED lvars
  /\ UNCHANGED <<jvars, nFaults, bvars, extraRows, split,
                 deposit, dpc, dcall, dpending, dbal, dcredit, dtx, dres>>

\* the VIP or the notification listener ends: with its work done, or in its own
\* catch block, which logs and returns; neither writes a balance or a deposit
ListenerEnds(d, listener, outcome) ==
  /\ dtask[d][listener] = "running"
  /\ dtask' = [dtask EXCEPT ![d][listener] = outcome]
  /\ UNCHANGED <<jvars, nFaults, bvars, extraRows, lvars, split,
                 deposit, dpc, dcall, dpending, dbal, dcredit, dtx, dres>>

NextConfirm ==
  \/ \E d \in DepositCalls, id \in ConfirmationIds, a \in ConfirmationAmounts :
       StartDeposit(d, id, a)
  \/ \E d \in DepositCalls : FindDeposit(d)
  \/ \E d \in DepositCalls : ReadDepositBalance(d)
  \/ \E d \in DepositCalls : CreditWallet(d)
  \/ \E d \in DepositCalls : MarkCompleted(d)
  \/ \E d \in DepositCalls : DepositCommit(d)
  \/ \E d \in DepositCalls : DepositFault(d)
  \/ \E d \in DepositCalls : ConfirmDeposit(d)
  \/ \E d \in DepositCalls, listener \in {"vip", "notification"}, outcome \in {"done", "failed"} :
       ListenerEnds(d, listener, outcome)
  \/ \E l \in LogCalls : LogInsert(l)
  \/ \E l \in LogCalls : LogFault(l)

SpecConfirm == InitDeposit /\ [][NextConfirm]_vars

\* ------------------------------------------- contributions and wins alone
\* The calls of the main run without updateConfig: the pools are created by
\* ensureInitialized and moved by contribute and processWin only.
NextFloor ==
  \/ EnsureInitialized
  \/ \E p \in Procs, w \in Wagers : StartContribute(p, w)
  \/ \E p \in Procs, r \in WinRequests : StartWin(p, r.type, r.winAmount)
  \/ \E p \in Procs : BatchRead(p)
  \/ \E p \in Procs, t \in JackpotTypes : ContributeMutate(p, t)
  \/ \E p \in Procs : VerifyCommit(p)
  \/ \E p \in Procs : WinLock(p)
  \/ \E p \in Procs : WinMutate(p)
  \/ \E p \in Procs : WinCommit(p)
  \/ \E p \in Procs, transient \in BOOLEAN : StoreFault(p, transient)

SpecFloor == Init /\ [][NextFloor]_vars

\* ------------------------------------------------------ retry loops that end
\* the concurrent contribute calls of the stress runs, with store faults, under
\* the scheduling the runtime gives them: a call that has entered
\* batchOptimisticUpdate (its awaited reads, writes, commit and backoff timers)
\* keeps being resumed until it has returned or raised
RetryStep(p) ==
  \/ BatchRead(p)
  \/ ContributeMutate(p, "MINOR")
  \/ VerifyCommit(p)

NextRetry ==
  \/ \E p \in StressProcs : StartContribute(p, StressWager)
  \/ \E p \in StressProcs : RetryStep(p)
  \/ \E p \in StressProcs, transient \in BOOLEAN : StoreFault(p, transient)

SpecRetry ==
  InitStress /\ [][NextRetry]_vars /\ \A p \in StressProcs : WF_vars(RetryStep(p))

\* =================================================================== claims
RECURSIVE SumOver(_, _)
\* the sum of field f over the records of the finite set S
SumOver(S, f) ==
  IF S = {} THEN 0
  ELSE LET r == CHOOSE x \in S : TRUE IN r[f] + SumOver(S \ {r}, f)

AllReturned == \A p \in DOMAIN pc : pc[p] = "done"
Succeeded == {p \in DOMAIN pc : pc[p] = "done" /\ result[p].status = "ok"}
StressContribution ==
  ActualContribution(config["minor"], StressRow.currentAmount, StressWager)

\* C1 (as stated): once all N concurrent contribute calls of the same non-zero
\* contribution a have returned, currentAmount = initial + N*a and
\* version = initial version + N.
C1_AllContributionsApplied ==
  AllReturned =>
    /\ pools["MINOR"].currentAmount =
         StressRow.currentAmount + NumStressCalls * StressContribution
    /\ pools["MINOR"].version = StressRow.version + NumStressCalls

\* C1 (amended): once all N concurrent contribute calls have returned,
\* currentAmount = initial + K*a and version = initial version + K, where K is the
\* number of calls that returned successfully; a call that raised (its three
\* attempts all met a version conflict) has contributed nothing.
C1_SuccessfulContributionsApplied ==
  AllReturned =>
    /\ StressContribution > 0
    /\ pools["MINOR"].currentAmount =
         StressRow.currentAmount + Cardinality(Succeeded) * StressContribution
    /\ pools["MINOR"].version = StressRow.version + Cardinality(Succeeded)

\* several calls overlapped, one of them retried after a conflict, all returned
C1_Witness ==
  /\ AllReturned
  /\ Cardinality(Succeeded) >= 3
  /\ \E p \in DOMAIN pc : result[p].status = "CONCURRENCY_VERSION_CONFLICT"

\* C2: an optimistic transaction commits only if every row it read has, after the
\* mutation, its original version or original + 1; a transaction that wrote a row
\* on top of another transaction's commit (made after its read) does not commit:
\* its verification raises the version conflict and the tables stay as they were.
C2_OptimisticCommitSound ==
  [][\A p \in Procs :
       /\ (pc[p] = "verify" /\ pc'[p] = "done" /\ result'[p].status = "ok") =>
            \A t \in TypesOf(call[p]) :
              /\ pools'[t].version \in {snap[p][t].version, snap[p][t].version + 1}
              /\ t \in txWritten[p] =>
                   /\ pools[t].version = snap[p][t].version
                   /\ pools'[t].version = snap[p][t].version + 1
       /\ (/\ pc[p] = "verify" /\ pc'[p] # "verify"
           /\ \E t \in txWritten[p] : pools[t].version # snap[p][t].version) =>
            /\ pools' = pools
            /\ contributionHistory' = contributionHistory
            /\ winHistory' = winHistory
            /\ nFaults' = nFaults =>
                 \/ pc'[p] = "read" /\ attempt'[p] = attempt[p] + 1
                 \/ pc'[p] = "done" /\ result'[p].status = "CONCURRENCY_VERSION_CONFLICT"
    ]_vars

\* a call is about to verify a write it made on top of another call's commit
C2_Witness ==
  \E p \in Procs :
    /\ pc[p] = "verify"
    /\ \E t \in txWritten[p] : pools[t].version # snap[p][t].version

\* C3: in every committed state every pool has 0 <= currentAmount, and maxAmount
\* unset or currentAmount <= maxAmount.
C3_AmountWithinBounds ==
  \A t \in JackpotTypes :
    pools[t].present =>
      /\ 0 <= pools[t].currentAmount
      /\ pools[t].maxAmount = None \/ pools[t].currentAmount <= Val(pools[t].maxAmount)

\* C4: from its locked read to its commit a Win sees the committed row unchanged,
\* so the amount it commits never exceeds the pool's currentAmount at commit time.
C4_WinRowStable ==
  \A p \in Procs :
    (call[p].op = "win" /\ pc[p] \in {"mutate", "commit"}) =>
      /\ pools[call[p].type] = snap[p][call[p].type]
      /\ pc[p] = "commit" =>
           txData[p].actualWinAmount <= pools[call[p].type].currentAmount

\* a Win holds the row at its commit point while a contribute call waits to update it
C4_Witness ==
  \E p, q \in Procs :
    /\ call[p].op = "win" /\ pc[p] = "commit" /\ call[p].type = "MINOR"
    /\ call[q].op = "contribute" /\ pc[q] = "mutate"
    /\ ActualContribution(config["minor"], snap[q]["MINOR"].currentAmount,
                          call[q].wagerAmount) > 0

CommittedMutations(t) == committed[t].contribute + committed[t].win + committed[t].updateConfig

\* C5: every committed mutation of a pool raises its version by exactly 1, the
\* version never decreases, and it equals the initial version (0) plus the number
\* of committed mutations of the pool.
C5_VersionCountsMutations ==
  /\ [](\A t \in JackpotTypes : pools[t].present => pools[t].version = CommittedMutations(t))
  /\ [][\A t \in JackpotTypes :
          /\ pools'[t].version >= pools[t].version
          /\ pools'[t] # pools[t] /\ pools[t].present => pools'[t].version = pools[t].version + 1
       ]_vars

\* MINOR has been mutated by a contribution, a win and a configuration update
C5_Witness ==
  /\ committed["MINOR"].contribute >= 1
  /\ committed["MINOR"].win >= 1
  /\ committed["MINOR"].updateConfig >= 1

ContributionsOf(t) == {h \in contributionHistory : h.jackpotType = t}
WinsOf(t) == {h \in winHistory : h.jackpotType = t}

\* C6: in every committed state a pool has one contribution-history row per
\* committed non-zero contribution, summing to totalContributions, and one
\* win-history row per committed Win, summing to totalWins.
C6_HistoryMatchesCounters ==
  \A t \in JackpotTypes :
    /\ Cardinality(ContributionsOf(t)) = committed[t].contribute
    /\ SumOver(ContributionsOf(t), "contributionAmount") = pools[t].totalContributions
    /\ Cardinality(WinsOf(t)) = committed[t].win
    /\ SumOver(WinsOf(t), "amountWon") = pools[t].totalWins

\* MINOR has taken two contributions and a win
C6_Witness ==
  /\ Cardinality(ContributionsOf("MINOR")) >= 2
  /\ Cardinality(WinsOf("MINOR")) >= 1

\* C7: for every bet executeCoreBet completes, realBalanceAfter + bonusBalanceAfter
\* = realBalanceBefore + bonusBalanceBefore - wagerAmount + winAmount.
C7_ReturnedBalancesAddUp ==
  \A b \in Bets :
    (bpc[b] = "done" /\ bres[b].status = "ok") =>
      bres[b].realBalanceAfter + bres[b].bonusBalanceAfter =
        bres[b].realBalanceBefore + bres[b].bonusBalanceBefore
          - bres[b].wagerAmount + bres[b].winAmount

\* a bet funded from both balances completed with a win whose real part was rounded
C7_Witness ==
  \E b \in Bets :
    /\ bpc[b] = "done" /\ bres[b].status = "ok"
    /\ bres[b].balanceType = "mixed" /\ bres[b].winAmount = 75

C9_FailedBetRollsBack ==
  [][\A b \in Bets :
       (bpc[b] \in {"deduct", "credit", "commit"} /\ bpc'[b] = "done"
        /\ bres'[b].status # "ok") =>
         /\ balance' = balance
         /\ bres'[b].status \in {"Balance deduction failed", "Winnings addition failed"}
    ]_vars

\* a bet raised after its wager had been deducted in the transaction
C9_Witness ==
  \E b \in Bets :
    /\ bpc[b] = "done" /\ bres[b].status = "Winnings addition failed"
    /\ bded[b].success

EffectiveWinAmount(p) ==
  IF call[p].winAmount = None THEN pools[call[p].type].currentAmount
  ELSE Val(call[p].winAmount)

CappedContribution(row, wagerAmount) ==
  LET contribution == (wagerAmount \div 1000) * row.contributionRate
                        + ((wagerAmount % 1000) * row.contributionRate) \div 1000
  IN IF row.maxAmount # None /\ row.currentAmount + contribution > Val(row.maxAmount)
     THEN (IF Val(row.maxAmount) - row.currentAmount > 0
           THEN Val(row.maxAmount) - row.currentAmount ELSE 0)
     ELSE contribution

\* C12: for each contributing pool a committed Contribute has applied
\* floor(wagerAmount * contributionRate), or max(0, maxAmount - currentAmount) when
\* maxAmount is set and the sum would exceed it: the pool row advances by that
\* amount and the call reports it.
C12_ContributionFollowsPool ==
  [][\A p \in Procs :
       (call[p].op = "contribute" /\ pc[p] = "verify" /\ pc'[p] = "done"
        /\ result'[p].status = "ok") =>
         \A t \in GameJackpotTypes :
           LET a == CappedContribution(snap[p][t], call[p].wagerAmount)
           IN /\ result'[p].data.contributions[t] = a
              /\ pools'[t].currentAmount = pools[t].currentAmount + a
    ]_vars

\* the parts of the winnings executeCoreBet reports for a completed bet
RealPart(b) == bres[b].realBalanceAfter - (bres[b].realBalanceBefore - bded[b].real)
BonusPart(b) == bres[b].bonusBalanceAfter - (bres[b].bonusBalanceBefore - bded[b].bonus)
\* the parts of the winnings that reached the stored balance row
StoredRealPart(b) == balance.realBalance - (CreditBalance.realBalance - bded[b].real)
StoredBonusPart(b) == balance.bonusBalance - (CreditBalance.bonusBalance - bded[b].bonus)
Completed(b) == bpc[b] = "done" /\ bres[b].status = "ok"

\* C13: for a mixed deduction with non-zero totalDeducted and any winAmount >= 0,
\* realWinnings + bonusWinnings = winAmount exactly, neither part negative.
C13_MixedSplitIsExact ==
  \A b \in Bets :
    (Completed(b) /\ bded[b].balanceType = "mixed" /\ bded[b].real + bded[b].bonus # 0) =>
      /\ RealPart(b) + BonusPart(b) = bres[b].winAmount
      /\ RealPart(b) >= 0 /\ BonusPart(b) >= 0

\* a win of 5 on a wager drawn 3 real and 7 bonus: 1.5 rounds to 2 real, 3 bonus
C13_Witness ==
  \E b \in Bets :
    /\ Completed(b) /\ bded[b].balanceType = "mixed"
    /\ bded[b].real = 3 /\ bded[b].bonus = 7 /\ bres[b].winAmount = 5
    /\ RealPart(b) = 2 /\ BonusPart(b) = 3

\* C14: a winAmount > 0 is credited whole to the real balance when the deduction is
\* real, whole to the bonus balance when it is bonus (nothing reaches the real
\* balance), and whole to the real balance when it is mixed with totalDeducted = 0.
C14_PureDeductionCreditsSameBalance ==
  \A b \in Bets :
    (Completed(b) /\ bres[b].winAmount > 0) =>
      /\ (bded[b].balanceType = "real"
           \/ (bded[b].balanceType = "mixed" /\ bded[b].real + bded[b].bonus = 0)) =>
            /\ RealPart(b) = bres[b].winAmount /\ BonusPart(b) = 0
            /\ StoredRealPart(b) = bres[b].winAmount /\ StoredBonusPart(b) = 0
      /\ bded[b].balanceType = "bonus" =>
            /\ BonusPart(b) = bres[b].winAmount /\ RealPart(b) = 0
            /\ StoredBonusPart(b) = bres[b].winAmount /\ StoredRealPart(b) = 0

\* a bonus-funded wager has won, and a mixed deduction of nothing has won
C14_Witness ==
  \E b \in Bets :
    /\ Completed(b) /\ bres[b].winAmount = MaxCreditWin
    /\ bded[b].balanceType = "bonus"
    /\ balance = [realBalance |-> CreditBalance.realBalance,
                  bonusBalance |-> CreditBalance.bonusBalance - CreditWager + MaxCreditWin]

\* call p returns or raises in this step
Returns(p) == pc[p] # "done" /\ pc'[p] = "done"
\* the verification of p's attempt meets a version conflict in this step
ConflictStep(p) ==
  /\ pc[p] = "verify" /\ nFaults' = nFaults
  /\ \E t \in TypesOf(call[p]) :
       View(p, t).version \notin {snap[p][t].version, snap[p][t].version + 1}

\* C15: processJackpotContribution and onBetCompleted never raise: when the
\* contribution fails (validation, missing pool row, version conflict after the
\* retries, store fault) they return success = false, every per-type contribution
\* 0 and totalContribution 0 (the listener 0), and the failed call has left pool
\* rows and contribution history unchanged: only a call that returns successfully
\* changes them.
C15_ContributionFailsSoft ==
  /\ [](\A p \in DOMAIN pc :
          (pc[p] = "done" /\ call[p].op = "contribute") =>
            /\ ~ProcessJackpotContribution(result[p]).raised
            /\ result[p].status # "ok" =>
                 /\ ~ProcessJackpotContribution(result[p]).success
                 /\ \A t \in JackpotTypes :
                      ProcessJackpotContribution(result[p]).contributions[t] = 0
                 /\ ProcessJackpotContribution(result[p]).totalContribution = 0
                 /\ OnBetCompleted(result[p]) = 0
                 /\ \A h \in contributionHistory : h.id # p)
  /\ [][(pools' # pools \/ contributionHistory' # contributionHistory) =>
          \/ initialized' # initialized
          \/ \E p \in DOMAIN pc : Returns(p) /\ result'[p].status = "ok"
     ]_vars

\* of the calls made, one was refused by validation, one found no pool row, one
\* was ended by a store fault, and one contributed
C15_Witness ==
  \E p, q, r, u \in DOMAIN pc :
    /\ \A x \in {p, q, r, u} : pc[x] = "done" /\ call[x].op = "contribute"
    /\ result[p].status = "VALIDATION_INVALID_AMOUNT"
    /\ result[q].status = "SYSTEM_UNEXPECTED_STATE"
    /\ result[r].status = "DATABASE_CONNECTION_FAILED"
    /\ result[u].status = "ok" /\ result[u].data.totalContribution > 0
    /\ Cardinality(contributionHistory) = 1

\* C16: one batchOptimisticUpdate call makes at most 3 attempts and runs its
\* mutation once per attempt; a further attempt follows only a version conflict or
\* a store fault classified as transient; a non-transient fault ends the call at
\* the attempt where it occurred.
C16_BoundedRetry ==
  /\ [](\A p \in DOMAIN pc : attempt[p] <= MAX_RETRY_ATTEMPTS)
  /\ [][\A p \in DOMAIN pc :
          /\ (pc[p] = "read" /\ pc'[p] = "mutate") => attempt'[p] = attempt[p]
          /\ (pc'[p] = "read" /\ pc[p] \notin {"new", "read"}) => attempt'[p] = attempt[p] + 1
          /\ attempt'[p] # attempt[p] =>
                \/ pc[p] = "new" /\ attempt'[p] = 1
                \/ /\ attempt'[p] = attempt[p] + 1 /\ pc'[p] = "read"
                   /\ ConflictStep(p) \/ StoreFault(p, TRUE)
          /\ (StoreFault(p, FALSE) /\ call[p].op # "win") =>
                /\ pc'[p] = "done" /\ attempt'[p] = attempt[p]
                /\ result'[p].status = "DATABASE_CONNECTION_FAILED"
     ]_vars

\* a call succeeded at its third attempt, after one version conflict and one
\* transient store fault, while the other calls went through at their first
C16_Witness ==
  \E p \in DOMAIN pc :
    /\ pc[p] = "done" /\ result[p].status = "ok" /\ attempt[p] = MAX_RETRY_ATTEMPTS
    /\ nFaults = 1
    /\ \A q \in DOMAIN pc \ {p} : pc[q] = "done" /\ result[q].status = "ok" /\ attempt[q] = 1

\* C17: when the last attempt of an optimistic call fails, the fault raised is a
\* concurrency fault exactly if that attempt ended in a version conflict, and a
\* database fault if it ended in a store failure, also a transient one whose
\* retries are exhausted.
C17_FaultKindFollowsLastAttempt ==
  [][\A p \in DOMAIN pc :
       (Returns(p) /\ call[p].op # "win" /\ pc[p] \in {"mutate", "verify"}
        /\ result'[p].status # "ok") =>
         /\ ConflictStep(p) =>
              /\ result'[p].status = "CONCURRENCY_VERSION_CONFLICT"
              /\ attempt[p] = MAX_RETRY_ATTEMPTS
         /\ nFaults' # nFaults => result'[p].status = "DATABASE_CONNECTION_FAILED"
         /\ result'[p].status = "CONCURRENCY_VERSION_CONFLICT" => ConflictStep(p)
         /\ result'[p].status = "DATABASE_CONNECTION_FAILED" => nFaults' # nFaults
         /\ result'[p].status \in {"CONCURRENCY_VERSION_CONFLICT", "DATABASE_CONNECTION_FAILED"}
    ]_vars

\* a call met two version conflicts and lost its third attempt to a store fault
C17_Witness ==
  \E p \in DOMAIN pc :
    /\ pc[p] = "done" /\ result[p].status = "DATABASE_CONNECTION_FAILED"
    /\ attempt[p] = MAX_RETRY_ATTEMPTS /\ call[p].op = "contribute"
    /\ Cardinality({q \in DOMAIN pc : pc[q] = "done" /\ result[q].status = "ok"
                                       /\ call[q].op = "contribute"}) >= 2

\* C19: batchOptimisticUpdate fails the whole operation when a requested type has
\* no pool row: the attempt ends at its read with the fault of the missing pool,
\* the mutation is not invoked and no pool row or history row is written.
C19_MissingRowFailsBatch ==
  /\ [][\A p \in DOMAIN pc :
          (pc[p] = "read" /\ (pc'[p] # "read" \/ attempt'[p] # attempt[p])
           /\ nFaults' = nFaults
           /\ \E t \in TypesOf(call[p]) : ~pools[t].present) =>
            /\ pc'[p] # "mutate"
            /\ pc'[p] = "done" => result'[p].status = "SYSTEM_UNEXPECTED_STATE"
            /\ txWritten'[p] = {} /\ txContrib'[p] = {}
            /\ pools' = pools
            /\ contributionHistory' = contributionHistory /\ winHistory' = winHistory
     ]_vars
  /\ [](\A p \in DOMAIN pc :
          pc[p] \in {"mutate", "verify"} => \A t \in TypesOf(call[p]) : snap[p][t].present)

\* an updateConfig of minor and major failed on the missing MAJOR row and left
\* the MINOR row as it was
C19_Witness ==
  \E p \in DOMAIN pc :
    /\ call[p].op = "updateConfig" /\ call[p].keys = {"minor", "major"}
    /\ pc[p] = "done" /\ result[p].status = "SYSTEM_UNEXPECTED_STATE"
    /\ pools["MINOR"] = SeedRow("minor") /\ ~pools["MAJOR"].present

\* C18: pessimisticUpdate never waits for the row lock: when another transaction
\* holds the lock of the target pool row the call fails at once with the
\* lock-unavailable concurrency fault, does not run its mutation, is not retried,
\* and leaves the pool and the win history unchanged.
C18_WinNeverWaits ==
  [][\A p \in Procs :
       (pc[p] = "lock" /\ nFaults' = nFaults
        /\ (pc'[p] # "lock" \/ attempt'[p] # attempt[p])
        /\ rowLock[call[p].type] \notin {NoProc, p}) =>
         /\ pc'[p] = "done" /\ result'[p].status = "CONCURRENCY_LOCK_TIMEOUT"
         /\ result'[p].data = NoData
         /\ attempt'[p] = attempt[p]
         /\ txWritten'[p] = {} /\ txWin'[p] = {}
         /\ rowLock' = rowLock
         /\ pools' = pools /\ winHistory' = winHistory
    ]_vars

\* a Win has been refused for the lock while the contribute call that holds it is
\* still inside its transaction
C18_Witness ==
  \E p, q \in Procs :
    /\ call[p].op = "win" /\ pc[p] = "done"
    /\ result[p].status = "CONCURRENCY_LOCK_TIMEOUT"
    /\ call[q].op = "contribute" /\ pc[q] = "verify"
    /\ rowLock[call[p].type] = q
    /\ winHistory = {}

\* the configuration fields of a pool row
ConfigFields(row) == <<row.seedAmount, row.maxAmount, row.contributionRate>>
\* the row carries every field the partial update names
Carries(row, c) ==
  /\ c.seedAmount # None => row.seedAmount = Val(c.seedAmount)
  /\ c.maxAmount # None => row.maxAmount = c.maxAmount
  /\ c.rate # None => row.contributionRate = Val(c.rate)

\* C20: an updateConfig over several pool types is all-or-nothing in the store:
\* the configuration fields of a pool row change only in the step in which an
\* updateConfig call commits, and in that step every pool row the call affects
\* takes its changed fields; a call that fails, part-way or on a conflict with a
\* Contribute or a Win, changes no row.
C20_ConfigUpdateIsAtomic ==
  [][/\ \A t \in JackpotTypes :
          (pools[t].present /\ ConfigFields(pools'[t]) # ConfigFields(pools[t])) =>
            \E p \in Procs :
              /\ call[p].op = "updateConfig" /\ t \in TypesOf(call[p])
              /\ Returns(p) /\ result'[p].status = "ok"
     /\ \A p \in Procs :
          (call[p].op = "updateConfig" /\ Returns(p)) =>
            IF result'[p].status = "ok"
            THEN \A u \in TypesOf(call[p]) :
                   /\ Carries(pools'[u], call[p].partial)
                   /\ pools'[u].version = pools[u].version + 1
            ELSE pools' = pools
    ]_vars

\* an updateConfig of minor and major met a conflict with a Win on MAJOR after it
\* had updated MINOR, was then ended by a store fault, and neither row carries
\* any of its fields
C20_Witness ==
  \E p \in Procs :
    /\ call[p].op = "updateConfig" /\ call[p].keys = {"minor", "major"}
    /\ pc[p] = "done" /\ result[p].status = "DATABASE_CONNECTION_FAILED"
    /\ attempt[p] >= 2
    /\ committed["MAJOR"].win >= 1
    /\ ConfigFields(pools["MINOR"]) = ConfigFields(SeedRow("minor"))
    /\ ConfigFields(pools["MAJOR"]) = ConfigFields(SeedRow("major"))

\* the fields of a configuration entry or partial update, and the column of the
\* pool row each one is persisted in
ConfigFieldNames == {"rate", "seedAmount", "maxAmount"}
RowValue(row, f) ==
  IF f = "rate" THEN Some(row.contributionRate)
  ELSE IF f = "seedAmount" THEN Some(row.seedAmount)
  ELSE row.maxAmount

\* call p enters updateConfig in this step and its update passes validation
UpdateAccepted(p) ==
  /\ pc[p] = "new" /\ pc'[p] # "new"
  /\ call'[p].op = "updateConfig"
  /\ ~(pc'[p] = "done" /\ result'[p].status = "VALIDATION_INVALID_CONFIG")

\* the transaction of updateConfig call p commits in this step
UpdateCommits(p) ==
  /\ call[p].op = "updateConfig" /\ pc[p] = "verify"
  /\ pc'[p] = "done" /\ result'[p].status = "ok"

\* C21: updateConfig changes only the fields named in the partial update: a field
\* of an affected type that the update leaves out keeps its value in the
\* in-memory configuration and in the pool row, and the types the update leaves
\* out keep their configuration entry and their row
C21_UpdateTouchesNamedFieldsOnly ==
  [][\A p \in Procs :
       /\ UpdateAccepted(p) =>
            \A k \in ConfigKeys :
              IF k \in call'[p].keys
              THEN \A f \in ConfigFieldNames :
                     call'[p].partial[f] = None => config'[k][f] = config[k][f]
              ELSE config'[k] = config[k]
       /\ UpdateCommits(p) =>
            \A t \in JackpotTypes :
              IF ConfigKeyOf(t) \in call[p].keys
              THEN \A f \in ConfigFieldNames :
                     call[p].partial[f] = None => RowValue(pools'[t], f) = RowValue(pools[t], f)
              ELSE pools'[t] = pools[t]]_vars

\* what C22 names as an invalid entry of a configuration update
RateOutOfRange(c) == c.rate # None /\ (Val(c.rate) < 0 \/ Val(c.rate) > 1000)
SeedNotPositive(c) == c.seedAmount # None /\ Val(c.seedAmount) <= 0
CapNotAboveSeed(c) ==
  c.seedAmount # None /\ c.maxAmount # None /\ Val(c.maxAmount) <= Val(c.seedAmount)

\* updateConfig call p was refused as invalid
Refused(p) ==
  /\ pc[p] = "done" /\ call[p].op = "updateConfig"
  /\ result[p].status = "VALIDATION_INVALID_CONFIG"

\* C22: an updateConfig whose entry has a rate outside [0,1], a seedAmount that
\* is not positive, or a maxAmount not above the seedAmount given with it, raises
\* a validation fault in the step that makes the call, and that step changes
\* neither the in-memory configuration nor a pool row; the call does nothing after
C22_InvalidUpdateRefused ==
  [][\A p \in Procs :
       /\ ( /\ pc[p] = "new" /\ call'[p].op = "updateConfig" /\ call'[p].keys # {}
            /\ \/ RateOutOfRange(call'[p].partial)
               \/ SeedNotPositive(call'[p].partial)
               \/ CapNotAboveSeed(call'[p].partial) )
          => /\ pc'[p] = "done"
             /\ result'[p].status = "VALIDATION_INVALID_CONFIG"
             /\ config' = config
             /\ pools' = pools
             /\ txWritten' = txWritten
       /\ Refused(p) => pc'[p] = "done" /\ result'[p] = result[p]]_vars

\* three calls were refused, one for each kind of invalid entry, and the
\* configuration and the rows are as they were at the start
C22_Witness ==
  /\ \E p, q, r \in Procs :
       /\ Refused(p) /\ RateOutOfRange(call[p].partial)
       /\ Refused(q) /\ SeedNotPositive(call[q].partial)
       /\ Refused(r) /\ CapNotAboveSeed(call[r].partial)
  /\ config = InitialConfig
  /\ pools = [t \in JackpotTypes |-> SeedRow(ConfigKeyOf(t))]

\* the rows log call l has inserted, and those of one type
RowsOf(l) == {r \in ledger : r.id[1] = l}
RowsOfType(l, type) == {r \in RowsOf(l) : r.type = type}
\* log call l ran to its end without a failed insert
Logged(l) == lpc[l] = "done" /\ ~lres[l].logged
SameBalances(r, q) ==
  /\ r.realBalanceBefore = q.realBalanceBefore /\ r.realBalanceAfter = q.realBalanceAfter
  /\ r.bonusBalanceBefore = q.bonusBalanceBefore /\ r.bonusBalanceAfter = q.bonusBalanceAfter

\* C23: a logTransaction call that ran to its end has inserted, for a BET
\* payload, exactly one BET row carrying wagerAmount and exactly one WIN row if
\* winAmount > 0 and none otherwise, the WIN row carrying winAmount in wagerAmount
\* and having the relatedId and the four balances of the BET row; for a DEPOSIT
\* payload, exactly one row, of type DEPOSIT, carrying the credited amount
C23_LedgerRowsOfCall ==
  \A l \in LogCalls :
    Logged(l) =>
      /\ lcall[l].type = "BET" =>
           /\ Cardinality(RowsOfType(l, "BET")) = 1
           /\ \A b \in RowsOfType(l, "BET") : Some(b.wagerAmount) = lcall[l].wagerAmount
           /\ Cardinality(RowsOfType(l, "WIN")) =
                (IF lcall[l].winAmount # None /\ Val(lcall[l].winAmount) > 0 THEN 1 ELSE 0)
           /\ \A b \in RowsOfType(l, "BET"), w \in RowsOfType(l, "WIN") :
                /\ Some(w.wagerAmount) = lcall[l].winAmount
                /\ w.relatedId = b.relatedId /\ b.relatedId = lcall[l].relatedId
                /\ SameBalances(w, b)
           /\ RowsOf(l) = RowsOfType(l, "BET") \cup RowsOfType(l, "WIN")
      /\ lcall[l].type = "DEPOSIT" =>
           /\ Cardinality(RowsOf(l)) = 1
           /\ \A r \in RowsOf(l) : r.type = "DEPOSIT" /\ r.wagerAmount = DepositAmount

\* a won bet and a deposit have been logged: three rows
C23_Witness ==
  \E l, k \in LogCalls :
    /\ Logged(l) /\ lcall[l].type = "BET" /\ lcall[l].winAmount = Some(75)
    /\ Cardinality(RowsOfType(l, "WIN")) = 1
    /\ Logged(k) /\ lcall[k].type = "DEPOSIT"
    /\ Cardinality(ledger) = 3

\* log call l ended in a failed insert
LogFailed(l) == lpc[l] = "done" /\ lres[l].logged
\* log call k replays log call l: the same payload, logged again after l failed
Replays(k, l) ==
  /\ l < k /\ lcall[k] = lcall[l]
  /\ lcall[l].type = "BET" /\ lcall[l].winAmount # None /\ Val(lcall[l].winAmount) > 0
  /\ LogFailed(l)

Deposited == {d \in DepositCalls : dpc[d] = "done" /\ dres[d].status = "ok"}
\* no executeCoreDeposit call is under way
DepositsQuiet == \A d \in DepositCalls : dpc[d] \in {"new", "done"}

\* C30: executeCoreDeposit is atomic: when no call is under way, the balance
\* holds the credit of exactly the calls that returned, a call that raised has
\* credited nothing, and the deposit is COMPLETED exactly if a call returned
C30_DepositIsAtomic ==
  DepositsQuiet =>
    /\ balance.realBalance = 100 + DepositAmount * Cardinality(Deposited)
    /\ (deposit.status = "COMPLETED") = (Deposited # {})
    /\ \A d \in DepositCalls : (dpc[d] = "done" /\ d \notin Deposited) => dcredit[d] = None

\* C25: logTransaction never raises to its caller: a call that has ended has
\* returned, a failed insert included, and no step of a logTransaction call
\* changes the balances, the deposit row, or the position or the result of an
\* executeCoreDeposit or executeCoreBet call
C25_LedgerFailureStaysLocal ==
  [][/\ \A l \in LogCalls :
          /\ ~lres'[l].raised
          /\ lpc'[l] = "done" => lres'[l].returned
          /\ (lpc[l] # "done" /\ lpc'[l] = "done" /\ ledger' = ledger) => lres'[l].logged
     /\ (lpc' # lpc) =>
          /\ balance' = balance /\ deposit' = deposit
          /\ dpc' = dpc /\ dres' = dres
          /\ bpc' = bpc /\ bres' = bres]_vars

\* the deposit was credited and marked COMPLETED, its ledger insert failed, and
\* logTransaction returned: the deposit stands and the ledger is empty
C25_Witness ==
  \E d \in DepositCalls \cap LogCalls :
    /\ dpc[d] = "done" /\ dres[d].status = "ok"
    /\ lpc[d] = "done" /\ lres[d].logged /\ lres[d].returned /\ ~lres[d].raised
    /\ deposit.status = "COMPLETED"
    /\ balance.realBalance = 100 + DepositAmount
    /\ ledger = {}

\* C26: executeCoreBet raises before any balance write when the wager is not
\* a positive finite number, the winAmount is negative or not finite, the
\* user, the game or the user's balance row is missing, or validateBet
\* rejects the wager (below 10, above 100000, above the real plus the bonus
\* balance it read); the stored balances are unchanged by the call.
BadAmounts(b) ==
  \/ bcall[b].wagerAmount \in NotFinite \/ bcall[b].wagerAmount <= 0
  \/ bcall[b].winAmount \in NotFinite \/ bcall[b].winAmount < 0
MissingRow(b) ==
  \/ bcall[b].userId \notin Users
  \/ bcall[b].gameId \notin Games
  \/ bcall[b].userId \notin BalanceOwners
OutsideLimits(b) == bcall[b].wagerAmount < 10 \/ bcall[b].wagerAmount > 100000
AboveFunds(b) ==
  /\ buser[b] # None
  /\ IF Val(buser[b]).userBalances = <<>> THEN FALSE
     ELSE bcall[b].wagerAmount >
            Val(buser[b]).userBalances[1].realBalance + Val(buser[b]).userBalances[1].bonusBalance
Inadmissible(b) ==
  /\ bpc[b] # "new"
  /\ BadAmounts(b) \/ MissingRow(b) \/ OutsideLimits(b) \/ AboveFunds(b)
C26_RefusedBeforeAnyWrite ==
  [][\A b \in Bets :
       Inadmissible(b)' =>
         /\ bpc'[b] \in {"reads", "done"}
         /\ btx'[b] = None /\ bded'[b] = NoDeduction /\ balanceLock' # b
         /\ (bpc'[b] = "done" => bres'[b].status \notin {"none", "ok"})
         /\ (bpc[b] # bpc'[b] => balance' = balance)]_vars
C26_Witness ==
  \E a, b \in Bets :
    /\ a # b /\ bpc[a] = "done" /\ bpc[b] = "done"
    /\ bcall[a].gameId \notin Games /\ bres[a].status = "Game not found"
    /\ bcall[b].wagerAmount = 150 /\ bres[b].status = "INSUFFICIENT_BALANCE"
    /\ balance \in InitialBalances

\* C27: after any number of sequential or concurrent first calls that trigger
\* the pool initialization the store holds exactly one row per jackpot type;
\* a missing type is created once, from the default configuration with
\* currentAmount = seedAmount, and an existing row is never overwritten,
\* re-seeded or deleted.
RowsOfPool(t) == (IF pools[t].present THEN 1 ELSE 0) + extraRows[t]
C27_OneRowPerType ==
  [][/\ initialized' => \A t \in JackpotTypes : RowsOfPool(t)' = 1
     /\ \A t \in JackpotTypes :
          /\ pools[t].present => pools'[t] = pools[t]
          /\ (~pools[t].present /\ pools'[t].present) =>
               /\ pools'[t] = SeedRow(ConfigKeyOf(t))
               /\ pools'[t].currentAmount = pools'[t].seedAmount]_vars

ComputedContribution(p, t) ==
  (call[p].wagerAmount * OrElse(config[ConfigKeyOf(t)].rate, 0)) \div 1000
\* what the maxAmount of the configuration leaves above the row the call read
RoomBelowCap(p, t) ==
  IF ~Truthy(config[ConfigKeyOf(t)].maxAmount) THEN ComputedContribution(p, t)
  ELSE Val(config[ConfigKeyOf(t)].maxAmount) - snap[p][t].currentAmount
ContributesZero(p, t) ==
  /\ call[p].op = "contribute" /\ t \in TypesOf(call[p])
  /\ ComputedContribution(p, t) = 0 \/ RoomBelowCap(p, t) <= 0
C29_ZeroContributionWritesNothing ==
  [][\A p \in Procs, t \in JackpotTypes :
       /\ (pc[p] = "mutate" /\ t \in todo[p] /\ t \notin todo'[p] /\ ContributesZero(p, t)) =>
            /\ txPools'[p] = txPools[p] /\ txWritten'[p] = txWritten[p]
            /\ txContrib'[p] = txContrib[p]
            /\ txData'[p].contributions[t] = 0
       /\ (pc[p] = "verify" /\ pc'[p] = "done" /\ result'[p].status = "ok"
           /\ ContributesZero(p, t)) =>
            /\ pools'[t].currentAmount = pools[t].currentAmount
            /\ pools'[t].totalContributions = pools[t].totalContributions
            /\ pools'[t].version = pools[t].version
            /\ {h \in contributionHistory' \ contributionHistory : h.jackpotType = t} = {}
            /\ result'[p].data.contributions[t] = 0
    ]_vars

\* a wager of 500 found the pool at its maxAmount after an earlier one had
\* filled it: it returned 0 and the pool and the history are as the earlier
\* call left them
C29_Witness ==
  \E p, q \in Procs :
    /\ p # q /\ call[p].op = "contribute" /\ call[q].op = "contribute"
    /\ pc[p] = "done" /\ result[p].status = "ok" /\ result[p].data.contributions["MINOR"] = 5
    /\ pc[q] = "done" /\ result[q].status = "ok" /\ call[q].wagerAmount = 500
    /\ result[q].data.contributions["MINOR"] = 0 /\ result[q].data.totalContribution = 0
    /\ pools["MINOR"].currentAmount = DefaultJackpotConfig.minor.maxAmount
    /\ pools["MINOR"].version = 2
    /\ Cardinality(contributionHistory) = 1

\* C31: processDepositConfirmation returns success as soon as the core deposit
\* has committed, without waiting for the VIP, ledger and notification
\* listeners; a listener that fails or never finishes changes neither the
\* returned result nor the committed balance and deposit status, and
\* processDepositConfirmation itself never raises (a core failure is returned
\* as success = false with amount 0).
ConfirmationReturns(d) ==
  dtask[d].result.status = "none" /\ dtask'[d].result.status # "none"
ListenerMoves ==
  /\ \A d \in DepositCalls : dtask'[d].result = dtask[d].result
  /\ lpc' # lpc \/ dtask' # dtask
C31_ConfirmationDoesNotWait ==
  [][/\ \A d \in DepositCalls :
          ConfirmationReturns(d) =>
            /\ dtask'[d].result.status = "returned"
            /\ dtask'[d].result.success = (dres[d].status = "ok")
            /\ dtask'[d].result.success =>
                 /\ deposit.status = "COMPLETED"
                 /\ dtask'[d].result.depositId = dres[d].depositId
                 /\ dtask'[d].result.amount = dres[d].amount
                 /\ lpc'[d] # "done"
                 /\ dtask'[d].vip = "running" /\ dtask'[d].notification = "running"
            /\ ~dtask'[d].result.success =>
                 /\ dtask'[d].result.amount = 0
                 /\ dtask'[d].result.depositId = dcall[d].transactionId
     /\ ListenerMoves =>
          /\ balance' = balance /\ deposit' = deposit
          /\ dres' = dres /\ dpc' = dpc]_vars

\* the confirmation of the deposit returned success; since then its ledger
\* insert failed, its VIP listener failed and its notification never ended,
\* while a confirmation for an unknown deposit was returned as a failure
C31_Witness ==
  \E d, e \in DepositCalls :
    /\ dtask[d].result.status = "returned" /\ dtask[d].result.success
    /\ dtask[d].result.amount = DepositAmount
    /\ lpc[d] = "done" /\ ledger = {}
    /\ dtask[d].vip = "failed" /\ dtask[d].notification = "running"
    /\ deposit.status = "COMPLETED" /\ balance.realBalance = 100 + DepositAmount
    /\ dtask[e].result.status = "returned" /\ ~dtask[e].result.success
    /\ dtask[e].result.amount = 0

\* C32: in every committed state reachable from initialization by Contribute
\* and Win calls alone (no UpdateConfig), every pool has
\* currentAmount >= seedAmount.
C32_PoolNeverBelowSeed ==
  \A t \in JackpotTypes :
    pools[t].present => pools[t].currentAmount >= pools[t].seedAmount

\* MINOR has taken contributions and paid a win that the floor brought back to
\* the seed
C32_Witness ==
  /\ pools["MINOR"].present
  /\ pools["MINOR"].totalContributions > 0 /\ pools["MINOR"].totalWins > 0
  /\ pools["MINOR"].totalWins > pools["MINOR"].totalContributions
  /\ pools["MINOR"].currentAmount = pools["MINOR"].seedAmount

\* C36: in every committed state reachable by Contribute and Win calls each
\* pool satisfies currentAmount >= initial currentAmount + growth of
\* totalContributions - growth of totalWins: the seed floor applied by a Win
\* can only add funds to a pool, and no operation removes funds that were not
\* paid out as a win. A pool starts at its seedAmount with both totals at 0.
C36_FundsOnlyLeaveAsWins ==
  \A t \in JackpotTypes :
    pools[t].present =>
      pools[t].currentAmount >=
        SeedRow(ConfigKeyOf(t)).currentAmount
          + (pools[t].totalContributions - SeedRow(ConfigKeyOf(t)).totalContributions)
          - (pools[t].totalWins - SeedRow(ConfigKeyOf(t)).totalWins)

\* the floor has added funds: MINOR holds more than its seed plus its
\* contributions less its wins
C36_Witness ==
  /\ pools["MINOR"].present
  /\ pools["MINOR"].totalContributions > 0 /\ pools["MINOR"].totalWins > 0
  /\ pools["MINOR"].currentAmount >
       SeedRow("minor").currentAmount + pools["MINOR"].totalContributions
         - pools["MINOR"].totalWins

\* C37: Contribute changes only currentAmount, totalContributions and version
\* of the pools mapped to the game; Win changes only currentAmount, totalWins,
\* lastWonAmount, lastWonByUserId and version of its target pool; neither
\* changes seedAmount, maxAmount or contributionRate, and neither changes any
\* pool of another type. (lastWonAt and updatedAt are not part of the rows.)
ContributeFrame(row) ==
  <<row.present, row.seedAmount, row.maxAmount, row.contributionRate,
    row.totalWins, row.lastWonAmount, row.lastWonByUserId>>
WinFrame(row) ==
  <<row.present, row.seedAmount, row.maxAmount, row.contributionRate, row.totalContributions>>
C37_ContributeAndWinFrames ==
  [][\A p \in Procs :
       (pc[p] # "done" /\ pc'[p] = "done" /\ pools' # pools) =>
         /\ call[p].op \in {"contribute", "win"}
         /\ \A t \in JackpotTypes \ TypesOf(call[p]) : pools'[t] = pools[t]
         /\ \A t \in TypesOf(call[p]) :
              /\ call[p].op = "contribute" => ContributeFrame(pools'[t]) = ContributeFrame(pools[t])
              /\ call[p].op = "win" => WinFrame(pools'[t]) = WinFrame(pools[t])
    ]_vars

\* a contribution and a win have both been committed to MINOR while MAJOR and
\* GRAND are as ensureInitialized made them
C37_Witness ==
  /\ pools["MINOR"].present
  /\ pools["MINOR"].totalContributions > 0 /\ pools["MINOR"].totalWins > 0
  /\ pools["MINOR"].version >= 2
  /\ pools["MAJOR"] = SeedRow("major") /\ pools["GRAND"] = SeedRow("mega")

\* C33: the realBalanceAfter and bonusBalanceAfter returned by executeCoreBet
\* equal the user's stored balances at the moment the bet's transaction
\* commits, also when another bet of the same user commits between
\* executeCoreBet's balance read and its transaction.
C33_ReturnedBalancesAreStored ==
  [][\A b \in Bets :
       (bpc[b] = "commit" /\ bpc'[b] = "done" /\ bres'[b].status = "ok") =>
         /\ bres'[b].realBalanceAfter = balance'.realBalance
         /\ bres'[b].bonusBalanceAfter = balance'.bonusBalance]_vars

\* C34: when updateConfig fails while persisting (version conflict after
\* retries, missing pool row, store fault), the in-memory configuration that
\* Contribute reads is the same as before the call. Checked for a call that is
\* the only updateConfig made so far, whose configuration before the call is
\* the constructor's.
OnlyUpdateSoFar(p) ==
  /\ call[p].op = "updateConfig"
  /\ \A q \in Procs \ {p} : call[q].op # "updateConfig"
C34_FailedUpdateKeepsConfig ==
  [][\A p \in Procs :
       (OnlyUpdateSoFar(p) /\ pc[p] # "done" /\ pc'[p] = "done"
        /\ result'[p].status # "ok") =>
         config' = InitialConfig]_vars

\* C35: a deposit is credited at most once: a confirmation for a deposit that
\* is already COMPLETED (a replayed confirmation, or a second confirmation for
\* the same transactionId running concurrently) does not credit the user's
\* balance again.
CreditsOf(id) ==
  {d \in DepositCalls : dcall[d].transactionId = id /\ dcredit[d] # None}
C35_DepositCreditedOnce ==
  /\ Cardinality(CreditsOf(DepositId)) <= 1
  /\ balance.realBalance <= 100 + DepositAmount

\* C38: for a mixed deduction with totalDeducted > 0 and any winAmount >= 0,
\* both credited parts lie in [0, winAmount]: realWinnings is never negative
\* and never exceeds winAmount, so bonusWinnings = winAmount - realWinnings is
\* never negative. (The parts and winAmount are numerators over split.winDen.)
C38_SplitPartsWithinWin ==
  (/\ split.pc = "done"
   /\ split.balanceDeduction.balanceType = "mixed"
   /\ split.balanceDeduction.real + split.balanceDeduction.bonus > 0)
  => /\ 0 <= split.realWinnings /\ split.realWinnings <= split.winNum
     /\ 0 <= split.bonusWinnings /\ split.bonusWinnings <= split.winNum

\* C39: every batchOptimisticUpdate call (optimisticUpdate is the same loop on
\* one row) terminates after at most maxRetries attempts, by returning a result
\* or raising a fault from inside the retry loop: the attempt counter never
\* passes maxRetries, a call ends at the attempt it is in, and a call that has
\* entered the loop does end; the "Max retries exceeded" fault placed after the
\* loop, which would be raised with the counter past maxRetries, is never raised.
C39_RetryLoopEndsInside ==
  /\ [](\A p \in StressProcs :
          pc[p] \notin {"new", "done"} => attempt[p] \in 1 .. MAX_RETRY_ATTEMPTS)
  /\ [][\A p \in StressProcs :
          Returns(p) =>
            /\ attempt'[p] = attempt[p]
            /\ attempt[p] <= MAX_RETRY_ATTEMPTS
            /\ pc[p] # "new" => attempt[p] >= 1
     ]_vars
  /\ \A p \in StressProcs : (pc[p] \notin {"new", "done"}) ~> (pc[p] = "done")

\* every call has ended; one of them raised the version conflict of its last
\* attempt, after continuing twice
C39_Witness ==
  /\ \A p \in StressProcs : pc[p] = "done"
  /\ \E p \in StressProcs :
       /\ result[p].status = "CONCURRENCY_VERSION_CONFLICT"
       /\ attempt[p] = MAX_RETRY_ATTEMPTS

====
